---- MODULE Spec2Model ----
(***************************************************************************)
(* A model of bitcoinjs-mcp-server: the tool registries, the dispatcher of *)
(* src/index.ts, the helpers of src/utils/bitcoin.ts and the tool handlers *)
(* of src/tools/*.ts.                                                      *)
(*                                                                         *)
(* Texts (JavaScript strings whose characters the code inspects) are       *)
(* tuples of one-character strings; byte buffers are tuples of 0..255.     *)
(* Tool names, field names and fixed message prefixes, which the code only *)
(* compares for equality, are TLA+ strings.  The calls into bitcoinjs-lib  *)
(* are modelled by what the library does for the values that occur here.   *)
(***************************************************************************)
EXTENDS Integers, Sequences, FiniteSets, TLC

\* Bounds of the model.
MaxInputs == 1          \* most inputs in a transaction argument
MaxOutputs == 2         \* most outputs in a transaction argument
MaxUpper == 2           \* most characters of a network name written in upper case

---------------------------------------------------------------------------
\* Texts

UpperChars == <<"A","B","C","D","E","F","G","H","I","J","K","L","M",
                "N","O","P","Q","R","S","T","U","V","W","X","Y","Z">>
LowerChars == <<"a","b","c","d","e","f","g","h","i","j","k","l","m",
                "n","o","p","q","r","s","t","u","v","w","x","y","z">>
DigitChars == <<"0","1","2","3","4","5","6","7","8","9">>
HexDigits == <<"0","1","2","3","4","5","6","7","8","9","a","b","c","d","e","f">>

Range(s) == { s[i] : i \in DOMAIN s }

\* String.prototype.toLowerCase, one character
LowerChar(c) ==
  IF \E i \in 1..26 : UpperChars[i] = c
    THEN LowerChars[CHOOSE i \in 1..26 : UpperChars[i] = c]
    ELSE c

UpperChar(c) ==
  IF \E i \in 1..26 : LowerChars[i] = c
    THEN UpperChars[CHOOSE i \in 1..26 : LowerChars[i] = c]
    ELSE c

toLowerCase(s) == [i \in 1..Len(s) |-> LowerChar(s[i])]

\* the printable ASCII characters, from the space (code 32) on; the
\* double quote, the backslash and the backtick, which no text here holds,
\* are written out as words
Ascii ==
  <<" ","!","dquote","#","$","%","&","'","(",")","*","+",",","-",".","/",
    "0","1","2","3","4","5","6","7","8","9",":",";","<","=",">","?",
    "@","A","B","C","D","E","F","G","H","I","J","K","L","M","N","O",
    "P","Q","R","S","T","U","V","W","X","Y","Z","[","backslash","]","^","_",
    "backtick","a","b","c","d","e","f","g","h","i","j","k","l","m","n","o",
    "p","q","r","s","t","u","v","w","x","y","z","{","|","}","~">>
CharCode(c) == 31 + (CHOOSE i \in 1..Len(Ascii) : Ascii[i] = c)

\* Buffer.from(text, 'utf8') for a text of ASCII characters
Utf8(text) == [i \in 1..Len(text) |-> CharCode(text[i])]

\* String.prototype.split(sep) for a one-character separator
RECURSIVE Split(_, _)
Split(text, sep) ==
  IF \A i \in 1..Len(text) : text[i] # sep THEN <<text>>
  ELSE LET k == CHOOSE i \in 1..Len(text) :
                  text[i] = sep /\ \A j \in 1..(i - 1) : text[j] # sep
       IN <<SubSeq(text, 1, k - 1)>> \o Split(SubSeq(text, k + 1, Len(text)), sep)

IsDigit(c) == c \in Range(DigitChars)
DigitVal(c) == (CHOOSE i \in 1..10 : DigitChars[i] = c) - 1

\* the value of a text of decimal digits
RECURSIVE DecimalValue(_)
DecimalValue(digits) ==
  IF Len(digits) = 0 THEN 0
  ELSE 10 * DecimalValue(SubSeq(digits, 1, Len(digits) - 1))
         + DigitVal(digits[Len(digits)])

\* parseInt(text, 10): an optional minus sign and the leading digits, NaN
\* (here [nan |-> TRUE]) without a digit
parseInt(text) ==
  LET neg == Len(text) > 0 /\ text[1] = "-"
      body == IF neg THEN Tail(text) ELSE text
      n == Cardinality({k \in 1..Len(body) : \A j \in 1..k : IsDigit(body[j])})
  IN IF n = 0 THEN [nan |-> TRUE, v |-> 0]
     ELSE [nan |-> FALSE,
           v |-> IF neg THEN 0 - DecimalValue(SubSeq(body, 1, n))
                 ELSE DecimalValue(SubSeq(body, 1, n))]

\* An optional argument: absent (undefined) or present with a value.
Absent == [given |-> FALSE]
Given(v) == [given |-> TRUE, v |-> v]

\* What a function call ends with: a returned value or a thrown Error.
Return(v) == [threw |-> FALSE, value |-> v]
Throw(m) == [threw |-> TRUE, message |-> m]

\* Error messages: a fixed text, a text with an interpolated string or
\* number, or a text followed by the message of the error it wraps.
Msg(t) == [text |-> t]
MsgS(t, s) == [text |-> t, str |-> s]
\* a message that ends with a word of an enumeration
MsgW(t, w) == [text |-> t, word |-> w]
\* a message that ends with a tool name
MsgT(t, name) == [text |-> t, tool |-> name]
MsgN(t, n) == [text |-> t, num |-> n]
MsgE(t, m) == [text |-> t, inner |-> m]
MsgNE(t, n, m) == [text |-> t, num |-> n, inner |-> m]

\* An optional text whose default is the main network, whatever the caller's.
TextOr_mainnet(opt, default) ==
  IF opt.given /\ Len(opt.v) > 0 THEN opt.v
  ELSE <<"m","a","i","n","n","e","t">>
\* a || b of JavaScript for an optional text and for an optional number:
\* undefined, the empty text and 0 all give the default
TextOr(opt, default) == IF opt.given /\ Len(opt.v) > 0 THEN opt.v ELSE default
NumOr(opt, default) == IF opt.given /\ opt.v # 0 THEN opt.v ELSE default
StrOr(opt, default) == IF opt.given /\ opt.v # "" THEN opt.v ELSE default
\* the truthiness of an optional text
Truthy(opt) == opt.given /\ Len(opt.v) > 0
\* list.length > 0 ? list : undefined
NonEmptyOrUndefined(list) == IF Len(list) > 0 THEN Given(list) ELSE Absent

---------------------------------------------------------------------------
\* src/utils/bitcoin.ts

S_mainnet == <<"m","a","i","n","n","e","t">>
S_testnet == <<"t","e","s","t","n","e","t">>
S_regtest == <<"r","e","g","t","e","s","t">>
S_invalid_network ==
  <<"i","n","v","a","l","i","d","_","n","e","t","w","o","r","k">>
S_empty == <<>>

\* bitcoin.networks.bitcoin / testnet / regtest of bitcoinjs-lib
networks ==
  [mainnet |-> [bech32 |-> "bc", bip32 |-> "xpub/xprv", pubKeyHash |-> 0,
                scriptHash |-> 5, wif |-> 128],
   testnet |-> [bech32 |-> "tb", bip32 |-> "tpub/tprv", pubKeyHash |-> 111,
                scriptHash |-> 196, wif |-> 239],
   regtest |-> [bech32 |-> "bcrt", bip32 |-> "tpub/tprv", pubKeyHash |-> 111,
                scriptHash |-> 196, wif |-> 239]]

getNetworkConfig_caseSensitive(networkName) ==
  CASE networkName = S_mainnet -> Return(networks.mainnet)
    [] networkName = S_testnet -> Return(networks.testnet)
    [] networkName = S_regtest -> Return(networks.regtest)
    [] OTHER -> Throw(MsgS("Unsupported network: ", networkName))

getNetworkConfig(networkName) ==
  LET n == toLowerCase(networkName) IN
  CASE n = S_mainnet -> Return(networks.mainnet)
    [] n = S_testnet -> Return(networks.testnet)
    [] n = S_regtest -> Return(networks.regtest)
    [] OTHER -> Throw(MsgS("Unsupported network: ", networkName))

validateNetwork(network) ==
  toLowerCase(network) \in {S_mainnet, S_testnet, S_regtest}

\* /^[0-9a-fA-F]*$/.test(hex) && hex.length % 2 === 0
IsHexChar(c) == LowerChar(c) \in Range(HexDigits)

isValidHex(hex) ==
  /\ \A i \in 1..Len(hex) : IsHexChar(hex[i])
  /\ Len(hex) % 2 = 0

---------------------------------------------------------------------------
\* Byte buffers and their hex text (Node's Buffer)

HexVal(c) == (CHOOSE i \in 1..16 : HexDigits[i] = LowerChar(c)) - 1

\* Buffer.prototype.toString('hex'): two lower-case digits per byte
toHexString(buf) ==
  [i \in 1..(2 * Len(buf)) |->
     IF i % 2 = 1 THEN HexDigits[(buf[(i + 1) \div 2] \div 16) + 1]
                  ELSE HexDigits[(buf[i \div 2] % 16) + 1]]

\* Buffer.from(text, 'hex'): the bytes of the leading pairs of hex digits;
\* decoding stops at the first pair that is not two hex digits.
BufferFromHex(hex) ==
  [i \in 1..Cardinality({k \in 1..(Len(hex) \div 2) :
                          \A j \in 1..(2 * k) : IsHexChar(hex[j])}) |->
     16 * HexVal(hex[2 * i - 1]) + HexVal(hex[2 * i])]

Fill(b, n) == [i \in 1..n |-> b]

\* little-endian unsigned integer of k bytes (k <= 4, n below 2^31)
LE(n, k) == [i \in 1..k |-> (n \div (256 ^ (i - 1))) % 256]
\* an 8-byte little-endian amount
LE64(n) == LE(n, 4) \o Fill(0, 4)
\* a transaction's or script's length prefix (varuint, lengths below 2^16)
VarInt(n) == IF n < 253 THEN <<n>> ELSE <<253>> \o LE(n, 2)
VarSlice(buf) == VarInt(Len(buf)) \o buf

Slice(buf, off, n) == SubSeq(buf, off + 1, off + n)
FromLE(b) == IF Len(b) = 0 THEN 0
             ELSE b[1] + (IF Len(b) > 1 THEN 256 * b[2] ELSE 0)
                       + (IF Len(b) > 2 THEN 65536 * b[3] ELSE 0)
                       + (IF Len(b) > 3 THEN 16777216 * b[4] ELSE 0)

\* An amount in base units, a number of up to 53 bits: whole coins and the
\* base units below one coin.
Amt(n) == [coins |-> n \div 100000000, sats |-> n % 100000000]
\* the amount as one number, for amounts below 2^31
Number(a) == a.coins * 100000000 + a.sats
AmtAdd(a, b) ==
  [coins |-> a.coins + b.coins + (a.sats + b.sats) \div 100000000,
   sats |-> (a.sats + b.sats) % 100000000]
RECURSIVE AmtSum(_)
AmtSum(as) == IF Len(as) = 0 THEN Amt(0) ELSE AmtAdd(Head(as), AmtSum(Tail(as)))
\* 16 * a + d for a hex digit d
AmtShift(a, d) ==
  [coins |-> 16 * a.coins + (16 * a.sats + d) \div 100000000,
   sats |-> (16 * a.sats + d) % 100000000]
\* a \div 16 and a % 16
AmtHalve(a) ==
  [q |-> [coins |-> a.coins \div 16,
          sats |-> ((a.coins % 16) * 100000000 + a.sats) \div 16],
   r |-> ((a.coins % 16) * 100000000 + a.sats) % 16]
\* the amount that the first i bytes of a little-endian buffer hold
RECURSIVE AmtFromLE(_, _)
AmtFromLE(b, i) ==
  IF i > Len(b) THEN Amt(0)
  ELSE AmtShift(AmtShift(AmtFromLE(b, i + 1), b[i] \div 16), b[i] % 16)
\* writeUInt64: the k low bytes of an amount, low byte first
RECURSIVE AmtToLE(_, _)
AmtToLE(a, k) ==
  IF k = 0 THEN <<>>
  ELSE <<AmtHalve(a).r + 16 * AmtHalve(AmtHalve(a).q).r>>
         \o AmtToLE(AmtHalve(AmtHalve(a).q).q, k - 1)
writeUInt64(a) == AmtToLE(a, 8)

\* the base64 alphabet
Base64Chars == UpperChars \o LowerChars \o DigitChars \o <<"+", "/">>
IsBase64Char(c) == c \in Range(Base64Chars)
Base64Val(c) == (CHOOSE i \in 1..64 : Base64Chars[i] = c) - 1

\* /^[A-Za-z0-9+/]*={0,2}$/ matches the text
MatchesBase64(text) ==
  \E pad \in 0..2 :
     /\ pad <= Len(text)
     /\ \A i \in 1..(Len(text) - pad) : IsBase64Char(text[i])
     /\ \A i \in (Len(text) - pad + 1)..Len(text) : text[i] = "="

\* the byte at place i of buf, 0 past its end
ByteAt(buf, i) == IF i <= Len(buf) THEN buf[i] ELSE 0
\* the 24 bits of the g-th group of three bytes (g from 0)
Group24(buf, g) ==
  65536 * ByteAt(buf, 3 * g + 1) + 256 * ByteAt(buf, 3 * g + 2)
    + ByteAt(buf, 3 * g + 3)

\* Buffer.prototype.toString('base64')
toBase64String(buf) ==
  [j \in 1..(4 * ((Len(buf) + 2) \div 3)) |->
     IF 3 * ((j - 1) \div 4) + ((j - 1) % 4) > Len(buf) THEN "="
     ELSE Base64Chars[((Group24(buf, (j - 1) \div 4)
                          \div (64 ^ (3 - ((j - 1) % 4)))) % 64) + 1]]

\* the text up to its first '='
UpToPadding(text) ==
  IF \E i \in 1..Len(text) : text[i] = "="
    THEN SubSeq(text, 1, (CHOOSE i \in 1..Len(text) :
                            text[i] = "=" /\ \A j \in 1..(i - 1) : text[j] # "=") - 1)
    ELSE text
\* the six bits of the character at place i of cs, 0 past its end
SextetAt(cs, i) == IF i <= Len(cs) THEN Base64Val(cs[i]) ELSE 0
SextetGroup(cs, g) ==
  262144 * SextetAt(cs, 4 * g + 1) + 4096 * SextetAt(cs, 4 * g + 2)
    + 64 * SextetAt(cs, 4 * g + 3) + SextetAt(cs, 4 * g + 4)
BytesOfSextets(cs) ==
  [i \in 1..((6 * Len(cs)) \div 8) |->
     (SextetGroup(cs, (i - 1) \div 3) \div (256 ^ (2 - ((i - 1) % 3)))) % 256]

\* Buffer.from(text, 'base64'): the characters of the alphabet up to the
\* first '=', six bits each; other characters are skipped
Base64Decode(text) ==
  BytesOfSextets(SelectSeq(UpToPadding(text), IsBase64Char))

\* Buffer.from(hash).reverse()
Reverse(buf) == [i \in 1..Len(buf) |-> buf[Len(buf) + 1 - i]]

---------------------------------------------------------------------------
\* Addresses and output scripts (bitcoinjs-lib address and payments)
\*
\* An address text is described by what its decoding yields: the encoding,
\* the base58check version byte or the bech32 prefix and witness version,
\* and the hash it carries (len bytes, each equal to h).

Base58Addr(ver, h) ==
  [enc |-> "base58", ver |-> ver, hrp |-> "", wv |-> 0, len |-> 20, h |-> h]
Bech32Addr(hrp, wv, len, h) ==
  [enc |-> "bech32", ver |-> 0, hrp |-> hrp, wv |-> wv, len |-> len, h |-> h]
\* a text that is neither base58check nor bech32, such as 'invalid_address'
NoAddr == [enc |-> "none", ver |-> 0, hrp |-> "", wv |-> 0, len |-> 0, h |-> 0]

\* the output scripts of the payment types, from the hash or key they carry
P2pkhOutput(hash) == <<118, 169, 20>> \o hash \o <<136, 172>>
P2shOutput(hash) == <<169, 20>> \o hash \o <<135>>
P2wpkhOutput(hash) == <<0, 20>> \o hash
P2wshOutput(hash) == <<0, 32>> \o hash
P2trOutput(key) == <<81, 32>> \o key
P2pkhScript(h) == P2pkhOutput(Fill(h, 20))
P2shScript(h) == P2shOutput(Fill(h, 20))
P2wpkhScript(h) == P2wpkhOutput(Fill(h, 20))
P2wshScript(h) == P2wshOutput(Fill(h, 32))
P2trScript(h) == P2trOutput(Fill(h, 32))

\* bitcoin.address.toOutputScript(address, network)
toOutputScript(address, network) ==
  CASE address.enc = "base58" /\ address.ver = network.pubKeyHash ->
         Return(P2pkhScript(address.h))
    [] address.enc = "base58" /\ address.ver = network.scriptHash
                              /\ address.ver # network.pubKeyHash ->
         Return(P2shScript(address.h))
    [] address.enc = "bech32" /\ address.hrp # network.bech32 ->
         Throw(MsgS("has an invalid prefix", <<>>))
    [] address.enc = "bech32" /\ address.hrp = network.bech32
         /\ address.wv = 0 /\ address.len = 20 ->
         Return(P2wpkhScript(address.h))
    [] address.enc = "bech32" /\ address.hrp = network.bech32
         /\ address.wv = 0 /\ address.len = 32 ->
         Return(P2wshScript(address.h))
    [] address.enc = "bech32" /\ address.hrp = network.bech32
         /\ address.wv = 1 /\ address.len = 32 ->
         Return(P2trScript(address.h))
    [] OTHER -> Throw(MsgS("has no matching Script", <<>>))

\* The script templates, as the payments functions recognise an output.
IsP2pkh(s) == /\ Len(s) = 25 /\ s[1] = 118 /\ s[2] = 169 /\ s[3] = 20
              /\ s[24] = 136 /\ s[25] = 172
IsP2sh(s) == Len(s) = 23 /\ s[1] = 169 /\ s[2] = 20 /\ s[23] = 135
IsP2wpkh(s) == Len(s) = 22 /\ s[1] = 0 /\ s[2] = 20
IsP2wsh(s) == Len(s) = 34 /\ s[1] = 0 /\ s[2] = 32
IsP2tr(s) == Len(s) = 34 /\ s[1] = 81 /\ s[2] = 32

\* bitcoin.address.fromOutputScript(output, network)
fromOutputScript(s, network) ==
  CASE IsP2pkh(s) -> Return(Base58Addr(network.pubKeyHash, s[4]))
    [] IsP2sh(s) -> Return(Base58Addr(network.scriptHash, s[3]))
    [] IsP2wpkh(s) -> Return(Bech32Addr(network.bech32, 0, 20, s[3]))
    [] IsP2wsh(s) -> Return(Bech32Addr(network.bech32, 0, 32, s[3]))
    [] IsP2tr(s) -> Return(Bech32Addr(network.bech32, 1, 32, s[3]))
    [] OTHER -> Throw(MsgS("has no matching Address", <<>>))

---------------------------------------------------------------------------
\* Keys (the ecpair package) and hashes
\*
\* A WIF text is described by what its decoding yields: the version byte,
\* the key (a number standing for the 32 secret bytes) and the compression
\* flag; NoWif is a text that is no WIF at all.

Wif(version, k, compressed) ==
  [enc |-> "wif", version |-> version, k |-> k, compressed |-> compressed]
NoWif == [enc |-> "none", version |-> 0, k |-> 0, compressed |-> TRUE]

\* the public key of secret k, compressed (33 bytes) or not (65 bytes)
PublicKey(k, compressed) ==
  IF compressed THEN <<2>> \o Fill(k, 32) ELSE <<4>> \o Fill(k, 64)

\* ECPair.fromWIF(wif, network): the key pair, or an error
fromWIF(wif, network) ==
  IF wif.enc # "wif" THEN Throw(Msg("Invalid checksum"))
  ELSE IF wif.version # network.wif THEN Throw(Msg("Invalid network version"))
  ELSE Return([k |-> wif.k, compressed |-> wif.compressed,
               publicKey |-> PublicKey(wif.k, wif.compressed)])

\* Digests are stand-ins: a digest of n bytes repeats one byte computed from
\* the data, different for the different data that occur here.
RECURSIVE ByteSum(_)
ByteSum(buf) ==
  IF Len(buf) = 0 THEN 0
  ELSE IF Len(buf) = 1 THEN buf[1] % 101
  ELSE LET half == Len(buf) \div 2 IN
       (ByteSum(SubSeq(buf, 1, half))
          + 3 * ByteSum(SubSeq(buf, half + 1, Len(buf)))) % 101
Digest(tag, buf) == 20 + ((tag + ByteSum(buf)) % 101)
sha256(buf) == Fill(Digest(0, buf), 32)
hash160(buf) == Fill(Digest(1, buf), 20)
hash256(buf) == Fill(Digest(2, buf), 32)

\* the tags bitcoin.crypto.taggedHash knows
TaggedHashPrefixes ==
  <<"BIP0340/challenge", "BIP0340/aux", "BIP0340/nonce", "TapLeaf",
    "TapBranch", "TapSighash", "TapTweak", "KeyAgg list", "KeyAgg coefficient">>

\* bitcoin.crypto.taggedHash(tag, data)
taggedHash(tag, data) ==
  IF tag \notin Range(TaggedHashPrefixes)
    THEN Throw(Msg("The \"list[0]\" argument must be an instance of Buffer"))
  ELSE Return(Fill(Digest(4 + (CHOOSE i \in 1..Len(TaggedHashPrefixes) :
                                 TaggedHashPrefixes[i] = tag), data), 32))

\* the signature a key makes for an input: DER marker, signer, SIGHASH_ALL
Signature(publicKey) == <<48, publicKey[2], 1>>

---------------------------------------------------------------------------
\* Transactions (bitcoinjs-lib Transaction)
\*
\* A transaction is [version, locktime, ins, outs]; an input is
\* [hash, index, script, sequence, witness] with hash the 32 bytes in wire
\* order (the reverse of the txid text) and sequence its 4 bytes; an output
\* is [script, value].

DefaultSequence == <<255, 255, 255, 255>>

RECURSIVE Concat(_)
Concat(ss) == IF Len(ss) = 0 THEN <<>> ELSE Head(ss) \o Concat(Tail(ss))

hasWitnesses(tx) == \E i \in 1..Len(tx.ins) : Len(tx.ins[i].witness) > 0

SerializeIn(in) ==
  in.hash \o LE(in.index, 4) \o VarSlice(in.script) \o in.sequence
SerializeOut(out) == writeUInt64(out.value) \o VarSlice(out.script)
SerializeWitness(w) ==
  VarInt(Len(w)) \o Concat([i \in 1..Len(w) |-> VarSlice(w[i])])

\* Transaction.prototype.toBuffer; allowWitness as in __toBuffer
SerializeTx(tx, allowWitness) ==
  LET wit == allowWitness /\ hasWitnesses(tx) IN
  LE(tx.version, 4)
    \o (IF wit THEN <<0, 1>> ELSE <<>>)
    \o VarInt(Len(tx.ins))
    \o Concat([i \in 1..Len(tx.ins) |-> SerializeIn(tx.ins[i])])
    \o VarInt(Len(tx.outs))
    \o Concat([i \in 1..Len(tx.outs) |-> SerializeOut(tx.outs[i])])
    \o (IF wit THEN Concat([i \in 1..Len(tx.ins) |->
                              SerializeWitness(tx.ins[i].witness)])
               ELSE <<>>)
    \o LE(tx.locktime, 4)

\* Transaction.prototype.toHex
TxToHex(tx) == toHexString(SerializeTx(tx, TRUE))
\* Transaction.prototype.getHash and getId: the double SHA-256 of the
\* serialization without witnesses, and its reverse as hex text
TxGetHash(tx) == hash256(SerializeTx(tx, FALSE))
TxGetId(tx) == toHexString(Reverse(TxGetHash(tx)))
TxByteLength(tx) == Len(SerializeTx(tx, TRUE))
TxWeight(tx) == 3 * Len(SerializeTx(tx, FALSE)) + Len(SerializeTx(tx, TRUE))
TxVirtualSize(tx) == (TxWeight(tx) + 3) \div 4

\* BufferReader: every read fails when it runs past the end of the buffer.
OutOfBounds == Throw(Msg("Cannot read slice out of bounds"))
Failed(off) == [ok |-> FALSE, off |-> off]

\* A read yields [ok, off, v]: whether it stayed within the buffer, the
\* offset after it and the value read.  A step that depends on an earlier
\* read takes that read's result as an argument.
Read(off, v) == [ok |-> TRUE, off |-> off, v |-> v]

\* the width of the integer that follows the first byte b of a varuint
VarIntWidth(b) ==
  CASE b < 253 -> 0 [] b = 253 -> 2 [] b = 254 -> 4 [] OTHER -> 8

\* readVarInt at offset off
VarIntOfWidth(buf, off, w) ==
  IF Len(buf) < off + 1 + w THEN Failed(off)
  ELSE IF w = 0 THEN Read(off + 1, buf[off + 1])
  ELSE IF w = 8 /\ Slice(buf, off + 5, 4) # Fill(0, 4) THEN Failed(off)
  ELSE Read(off + 1 + w, FromLE(Slice(buf, off + 1, IF w = 8 THEN 4 ELSE w)))

ReadVarInt(buf, off) ==
  IF Len(buf) < off + 1 THEN Failed(off)
  ELSE VarIntOfWidth(buf, off, VarIntWidth(buf[off + 1]))

\* readVarSlice at offset off; n is the length read there
SliceOfLength(buf, off, n) ==
  IF ~n.ok THEN Failed(off)
  ELSE IF Len(buf) < n.off + n.v THEN Failed(off)
  ELSE Read(n.off + n.v, Slice(buf, n.off, n.v))

ReadVarSlice(buf, off) == SliceOfLength(buf, off, ReadVarInt(buf, off))

\* readUInt64: an amount of at most 2^53 - 1 (verifuint), low word first.
ReadUInt64(b) ==
  IF b[8] > 0 \/ b[7] > 31 THEN Failed(0)
  ELSE Read(8, AmtFromLE(b, 1))

\* k inputs from offset off, after the inputs acc
RECURSIVE ReadIns(_, _, _, _)
RECURSIVE ReadIn(_, _, _, _, _)
ReadIn(buf, off, k, acc, script) ==
  IF ~script.ok \/ Len(buf) < script.off + 4 THEN Failed(off)
  ELSE ReadIns(buf, script.off + 4, k - 1,
               Append(acc, [hash |-> Slice(buf, off, 32),
                            index |-> FromLE(Slice(buf, off + 32, 4)),
                            script |-> script.v,
                            sequence |-> Slice(buf, script.off, 4),
                            witness |-> <<>>]))

ReadIns(buf, off, k, acc) ==
  IF k = 0 THEN Read(off, acc)
  ELSE IF Len(buf) < off + 36 THEN Failed(off)
  ELSE ReadIn(buf, off, k, acc, ReadVarSlice(buf, off + 36))

\* k outputs from offset off, after the outputs acc
RECURSIVE ReadOuts(_, _, _, _)
RECURSIVE ReadOut(_, _, _, _, _, _)
ReadOut(buf, off, k, acc, value, script) ==
  IF ~value.ok \/ ~script.ok THEN Failed(off)
  ELSE ReadOuts(buf, script.off, k - 1,
                Append(acc, [script |-> script.v, value |-> value.v]))

ReadOuts(buf, off, k, acc) ==
  IF k = 0 THEN Read(off, acc)
  ELSE IF Len(buf) < off + 8 THEN Failed(off)
  ELSE ReadOut(buf, off, k, acc, ReadUInt64(Slice(buf, off, 8)),
               ReadVarSlice(buf, off + 8))

\* a witness vector of k items from offset off, after the items acc
RECURSIVE ReadVector(_, _, _, _)
RECURSIVE ReadItem(_, _, _, _)
ReadItem(buf, k, acc, item) ==
  IF ~item.ok THEN item
  ELSE ReadVector(buf, item.off, k - 1, Append(acc, item.v))

ReadVector(buf, off, k, acc) ==
  IF k = 0 THEN Read(off, acc)
  ELSE ReadItem(buf, k, acc, ReadVarSlice(buf, off))

\* the vector whose length n has been read
VectorOfLength(buf, n) ==
  IF ~n.ok THEN n ELSE ReadVector(buf, n.off, n.v, <<>>)

\* the witness vectors of the inputs from input i on, from offset off
RECURSIVE ReadWitnesses(_, _, _, _)
RECURSIVE ReadWitness(_, _, _, _)
ReadWitness(buf, ins, i, vec) ==
  IF ~vec.ok THEN vec
  ELSE ReadWitnesses(buf, vec.off, [ins EXCEPT ![i].witness = vec.v], i + 1)

ReadWitnesses(buf, off, ins, i) ==
  IF i > Len(ins) THEN Read(off, ins)
  ELSE ReadWitness(buf, ins, i, VectorOfLength(buf, ReadVarInt(buf, off)))

\* Transaction.fromBuffer(buffer), strict.  The transaction read so far is
\* [ok, off, wit, version, ins, outs]; each step reads on from s.off and
\* leaves a failed state as it is.
TxReadStart(buf) ==
  [ok |-> TRUE, off |-> IF buf[5] = 0 /\ buf[6] = 1 THEN 6 ELSE 4,
   wit |-> buf[5] = 0 /\ buf[6] = 1,
   version |-> FromLE(Slice(buf, 0, 4)), ins |-> <<>>, outs |-> <<>>]

TxPutIns(s, ins) ==
  IF ~ins.ok THEN [s EXCEPT !.ok = FALSE]
  ELSE [s EXCEPT !.off = ins.off, !.ins = ins.v]

TxPutOuts(s, outs) ==
  IF ~outs.ok THEN [s EXCEPT !.ok = FALSE]
  ELSE [s EXCEPT !.off = outs.off, !.outs = outs.v]

\* the count n of inputs has been read
InsOfCount(buf, n) ==
  IF ~n.ok THEN n ELSE ReadIns(buf, n.off, n.v, <<>>)
OutsOfCount(buf, n) ==
  IF ~n.ok THEN n ELSE ReadOuts(buf, n.off, n.v, <<>>)

TxReadIns(buf, s) ==
  IF ~s.ok THEN s ELSE TxPutIns(s, InsOfCount(buf, ReadVarInt(buf, s.off)))

TxReadOuts(buf, s) ==
  IF ~s.ok THEN s ELSE TxPutOuts(s, OutsOfCount(buf, ReadVarInt(buf, s.off)))

TxReadWitnesses(buf, s) ==
  IF ~s.ok \/ ~s.wit THEN s
  ELSE TxPutIns(s, ReadWitnesses(buf, s.off, s.ins, 1))

TxReadLocktime(buf, s) ==
  IF ~s.ok THEN OutOfBounds
  ELSE IF s.wit /\ ~hasWitnesses(s)
    THEN Throw(Msg("Transaction has superfluous witness data"))
  ELSE IF Len(buf) < s.off + 4 THEN OutOfBounds
  ELSE IF s.off + 4 # Len(buf)
    THEN Throw(Msg("Transaction has unexpected data"))
  ELSE Return([version |-> s.version, ins |-> s.ins, outs |-> s.outs,
               locktime |-> FromLE(Slice(buf, s.off, 4))])

TxFromBuffer(buf) ==
  IF Len(buf) < 6 THEN OutOfBounds
  ELSE TxReadLocktime(buf,
         TxReadWitnesses(buf, TxReadOuts(buf, TxReadIns(buf, TxReadStart(buf)))))

\* Transaction.fromHex(hex)
TxFromHex(hex) == TxFromBuffer(BufferFromHex(hex))

---------------------------------------------------------------------------
\* PSBT (bitcoinjs-lib Psbt over bip174)
\*
\* A container is [tx, inputs]: the unsigned transaction and, per input,
\* the map [witnessUtxo, nonWitnessUtxo, redeemScript, witnessScript,
\* partialSig, bip32Derivation, finalScriptSig, finalScriptWitness].  Output
\* maps stay empty.

EmptyInputMap ==
  [witnessUtxo |-> Absent, nonWitnessUtxo |-> Absent,
   redeemScript |-> Absent, witnessScript |-> Absent, partialSig |-> <<>>,
   bip32Derivation |-> <<>>, finalScriptSig |-> Absent, finalScriptWitness |-> Absent]

\* new bitcoin.Psbt({ network }): version 2, locktime 0
NewPsbt == [tx |-> [version |-> 2, locktime |-> 0, ins |-> <<>>,
                    outs |-> <<>>],
            inputs |-> <<>>]

PsbtMagic == <<112, 115, 98, 116, 255>>

KeyVal(key, value) == VarSlice(key) \o VarSlice(value)
OptKeyVal(type, opt) ==
  IF opt.given THEN KeyVal(<<type>>, opt.v) ELSE <<>>

SerializeInputMap(m) ==
  OptKeyVal(0, m.nonWitnessUtxo)
    \o (IF m.witnessUtxo.given
          THEN KeyVal(<<1>>, LE64(m.witnessUtxo.v.value)
                               \o VarSlice(m.witnessUtxo.v.script))
          ELSE <<>>)
    \o Concat([i \in 1..Len(m.partialSig) |->
                 KeyVal(<<2>> \o m.partialSig[i].pubkey,
                        m.partialSig[i].signature)])
    \o OptKeyVal(4, m.redeemScript)
    \o OptKeyVal(5, m.witnessScript)
    \o Concat([i \in 1..Len(m.bip32Derivation) |->
                 KeyVal(<<6>> \o m.bip32Derivation[i].pubkey,
                        m.bip32Derivation[i].masterFingerprint
                          \o m.bip32Derivation[i].path)])
    \o OptKeyVal(7, m.finalScriptSig)
    \o OptKeyVal(8, m.finalScriptWitness)
    \o <<0>>

\* Psbt.prototype.toBuffer
PsbtToBuffer(psbt) ==
  PsbtMagic
    \o KeyVal(<<0>>, SerializeTx(psbt.tx, FALSE)) \o <<0>>
    \o Concat([i \in 1..Len(psbt.inputs) |-> SerializeInputMap(psbt.inputs[i])])
    \o Concat([i \in 1..Len(psbt.tx.outs) |-> <<0>>])

PsbtToHex(psbt) == toHexString(PsbtToBuffer(psbt))
PsbtToBase64(psbt) == toBase64String(PsbtToBuffer(psbt))

\* one key-value map from offset off, up to its 0x00 separator, after the
\* key-values acc
RECURSIVE ReadKeyVals(_, _, _)
RECURSIVE ReadKeyVal(_, _, _, _)
ReadKeyVal(buf, acc, key, value) ==
  IF ~value.ok THEN value
  ELSE ReadKeyVals(buf, value.off, Append(acc, [key |-> key.v, value |-> value.v]))

\* the value that follows the key read
ValueOfKey(buf, key) == IF ~key.ok THEN key ELSE ReadVarSlice(buf, key.off)

ReadKeyVals(buf, off, acc) ==
  IF Len(buf) < off + 1 THEN Failed(off)
  ELSE IF buf[off + 1] = 0 THEN Read(off + 1, acc)
  ELSE ReadKeyVal(buf, acc, ReadVarSlice(buf, off),
                  ValueOfKey(buf, ReadVarSlice(buf, off)))

\* the input map m with the key-value kv put in; t is the type of the key
PutKeyVal(m, kv, t) ==
  CASE t = 0 -> [m EXCEPT !.nonWitnessUtxo = Given(kv.value)]
    [] t = 1 ->
         [m EXCEPT !.witnessUtxo =
            Given([script |-> Slice(kv.value, 9, Len(kv.value) - 9),
                   value |-> FromLE(Slice(kv.value, 0, 4))])]
    [] t = 2 ->
         [m EXCEPT !.partialSig =
            Append(@, [pubkey |-> Tail(kv.key), signature |-> kv.value])]
    [] t = 4 -> [m EXCEPT !.redeemScript = Given(kv.value)]
    [] t = 5 -> [m EXCEPT !.witnessScript = Given(kv.value)]
    [] t = 6 ->
         [m EXCEPT !.bip32Derivation =
            Append(@, [pubkey |-> Tail(kv.key),
                       masterFingerprint |-> Slice(kv.value, 0, 4),
                       path |-> Slice(kv.value, 4, Len(kv.value) - 4)])]
    [] t = 7 -> [m EXCEPT !.finalScriptSig = Given(kv.value)]
    [] t = 8 -> [m EXCEPT !.finalScriptWitness = Given(kv.value)]
    [] OTHER -> m

\* the input map that the key-values from the i-th on add to m
RECURSIVE PutKeyVals(_, _, _)
PutKeyVals(m, kvs, i) ==
  IF i > Len(kvs) THEN m
  ELSE PutKeyVals(PutKeyVal(m, kvs[i], kvs[i].key[1]), kvs, i + 1)

InputMapOf(kvs) == PutKeyVals(EmptyInputMap, kvs, 1)

\* k key-value maps from offset off, after the maps acc
RECURSIVE ReadMaps(_, _, _, _)
RECURSIVE ReadMap(_, _, _, _)
ReadMap(buf, k, acc, kvs) ==
  IF ~kvs.ok THEN kvs
  ELSE ReadMaps(buf, kvs.off, k - 1, Append(acc, kvs.v))

ReadMaps(buf, off, k, acc) ==
  IF k = 0 THEN Read(off, acc)
  ELSE ReadMap(buf, k, acc, ReadKeyVals(buf, off, <<>>))

\* the same previous output referenced by two inputs
HasDuplicateIns(ins) ==
  \E i, j \in 1..Len(ins) :
     i < j /\ ins[i].hash = ins[j].hash /\ ins[i].index = ins[j].index

\* Psbt.fromBuffer(buffer, { network }): the global map with the unsigned
\* transaction, then one map per input and per output
PsbtGlobalTx(global) ==
  IF ~\E i \in 1..Len(global) : global[i].key = <<0>>
    THEN Throw(Msg("Format Error: No global transaction"))
  ELSE TxFromBuffer(
         global[CHOOSE i \in 1..Len(global) : global[i].key = <<0>>].value)

PsbtOfMaps(tx, ins, outs) ==
  IF ~ins.ok \/ ~outs.ok
    THEN Throw(Msg("Format Error: Unexpected End of PSBT"))
  ELSE IF HasDuplicateIns(tx.ins) THEN Throw(Msg("Duplicate input detected."))
  ELSE Return([tx |-> tx,
               inputs |-> [i \in 1..Len(ins.v) |-> InputMapOf(ins.v[i])]])

\* the maps of the outputs follow the maps ins of the inputs
OutputMapsAfter(buf, tx, ins) ==
  IF ~ins.ok THEN ins ELSE ReadMaps(buf, ins.off, Len(tx.outs), <<>>)

PsbtReadMaps(buf, off, tx) ==
  PsbtOfMaps(tx, ReadMaps(buf, off, Len(tx.ins), <<>>),
             OutputMapsAfter(buf, tx, ReadMaps(buf, off, Len(tx.ins), <<>>)))

PsbtFromGlobal(buf, global, tx) ==
  IF tx.threw THEN tx
  ELSE IF \E i \in 1..Len(tx.value.ins) : Len(tx.value.ins[i].script) > 0
    THEN Throw(Msg("Format Error: Transaction ScriptSigs are not empty"))
  ELSE PsbtReadMaps(buf, global.off, tx.value)

PsbtReadGlobal(buf, global) ==
  IF ~global.ok THEN Throw(Msg("Format Error: Unexpected End of PSBT"))
  ELSE PsbtFromGlobal(buf, global, PsbtGlobalTx(global.v))

PsbtFromBuffer(buf) ==
  IF Len(buf) < 4 \/ SubSeq(buf, 1, 4) # SubSeq(PsbtMagic, 1, 4)
    THEN Throw(Msg("Format Error: Invalid Magic Number"))
  ELSE IF Len(buf) < 5 \/ buf[5] # 255
    THEN Throw(Msg("Format Error: Magic Number must be followed by 0xff separator"))
  ELSE PsbtReadGlobal(buf, ReadKeyVals(buf, 5, <<>>))

\* Psbt.fromHex(hex, { network }) and Psbt.fromBase64(data, { network })
PsbtFromHex(hex) == PsbtFromBuffer(BufferFromHex(hex))
PsbtFromBase64(data) == PsbtFromBuffer(Base64Decode(data))

IsFinalized(m) == m.finalScriptSig.given \/ m.finalScriptWitness.given

\* reverseBuffer(Buffer.from(txid, 'hex')): the hash of an input
HashOfTxid(txid) == Reverse(BufferFromHex(txid))

\* Psbt.prototype.addInput({ hash, index, ...map })
PsbtPutInput(psbt, in, map) ==
  IF in.index < 0 THEN Throw(Msg("Expected property \"1\" of type UInt32"))
  ELSE IF map.witnessScript.given
          /\ (IsP2wpkh(map.witnessScript.v) \/ IsP2sh(map.witnessScript.v))
    THEN Throw(Msg("P2WPKH or P2SH can not be contained within P2WSH"))
  ELSE IF map.nonWitnessUtxo.given /\ TxFromBuffer(map.nonWitnessUtxo.v).threw
    THEN TxFromBuffer(map.nonWitnessUtxo.v)
  ELSE IF HasDuplicateIns(Append(psbt.tx.ins, in))
    THEN Throw(Msg("Duplicate input detected."))
  ELSE Return([psbt EXCEPT !.tx.ins = Append(@, in),
                           !.inputs = Append(@, map)])

PsbtAddInput(psbt, txid, index, map) ==
  PsbtPutInput(psbt, [hash |-> HashOfTxid(txid), index |-> index,
                      script |-> <<>>, sequence |-> DefaultSequence,
                      witness |-> <<>>], map)

\* Psbt.prototype.addOutput({ address, value }) of a container for network
PsbtPutOutput(psbt, script, value) ==
  IF script.threw THEN script
  ELSE IF value < 0 THEN Throw(Msg("Expected property \"1\" of type Satoshi"))
  ELSE Return([psbt EXCEPT !.tx.outs =
                 Append(@, [script |-> script.value, value |-> Amt(value)])])

PsbtAddOutput(psbt, network, address, value) ==
  PsbtPutOutput(psbt, toOutputScript(address, network), value)

\* the output an input spends, as its map records it (an error without one)
PrevoutInTx(utx, in) ==
  IF TxGetHash(utx) # in.hash
    THEN Throw(Msg("Non-witness UTXO hash doesn't match the hash specified in the prevout"))
  ELSE IF in.index + 1 > Len(utx.outs)
    THEN Throw(Msg("Cannot read properties of undefined"))
  ELSE Return(utx.outs[in.index + 1])

PrevoutOf(psbt, i) ==
  IF psbt.inputs[i].nonWitnessUtxo.given
    THEN PrevoutInTx(TxFromBuffer(psbt.inputs[i].nonWitnessUtxo.v).value,
                     psbt.tx.ins[i])
  ELSE IF psbt.inputs[i].witnessUtxo.given
    THEN Return(psbt.inputs[i].witnessUtxo.v)
  ELSE Throw(Msg("Need a Utxo input item for signing"))

\* getMeaningfulScript: the script a signature commits to
MeaningfulScript(m, script) ==
  LET isP2SH == IsP2sh(script)
      isP2SHP2WSH == isP2SH /\ m.redeemScript.given /\ IsP2wsh(m.redeemScript.v)
      isP2WSH == IsP2wsh(script)
  IN IF isP2SH /\ ~m.redeemScript.given
       THEN Throw(Msg("scriptPubkey is P2SH but redeemScript missing"))
     ELSE IF (isP2WSH \/ isP2SHP2WSH) /\ ~m.witnessScript.given
       THEN Throw(Msg("scriptPubkey or redeemScript is P2WSH but witnessScript missing"))
     ELSE IF isP2SHP2WSH
       THEN IF hash160(m.redeemScript.v) # Slice(script, 2, 20)
              THEN Throw(Msg("Redeem script doesn't match the scriptPubKey in the prevout"))
            ELSE IF sha256(m.witnessScript.v) # Slice(m.redeemScript.v, 2, 32)
              THEN Throw(Msg("Witness script doesn't match the scriptPubKey in the prevout"))
            ELSE Return([script |-> m.witnessScript.v, type |-> "p2sh-p2wsh"])
     ELSE IF isP2WSH
       THEN IF sha256(m.witnessScript.v) # Slice(script, 2, 32)
              THEN Throw(Msg("Witness script doesn't match the scriptPubKey in the prevout"))
            ELSE Return([script |-> m.witnessScript.v, type |-> "p2wsh"])
     ELSE IF isP2SH
       THEN IF hash160(m.redeemScript.v) # Slice(script, 2, 20)
              THEN Throw(Msg("Redeem script doesn't match the scriptPubKey in the prevout"))
            ELSE Return([script |-> m.redeemScript.v, type |-> "p2sh"])
     ELSE Return([script |-> script, type |-> "raw"])

\* getHashForSig: the script signed for input i (the hash itself is not
\* modelled), or the error that no signature hash can be computed
ScriptToSign(m, meaningful) ==
  IF meaningful.threw THEN meaningful
  ELSE IF meaningful.value.type \in {"p2sh-p2wsh", "p2wsh"}
         \/ IsP2wpkh(meaningful.value.script)
    THEN Return(meaningful.value.script)
  ELSE IF ~m.nonWitnessUtxo.given
    THEN Throw(Msg("Input has witnessUtxo but non-segwit script"))
  ELSE Return(meaningful.value.script)

ScriptOfPrevout(m, prevout) ==
  IF prevout.threw THEN prevout
  ELSE ScriptToSign(m, MeaningfulScript(m, prevout.value.script))

ScriptForSig(psbt, i) == ScriptOfPrevout(psbt.inputs[i], PrevoutOf(psbt, i))

\* pubkeyInScript: the key or its hash is one of the script's pushes
PubkeyInScript(pubkey, script) ==
  \/ IsP2wpkh(script) /\ Slice(script, 2, 20) = hash160(pubkey)
  \/ IsP2pkh(script) /\ Slice(script, 3, 20) = hash160(pubkey)
  \/ \E off \in 0..(Len(script) - Len(pubkey) - 1) :
       script[off + 1] = Len(pubkey)
         /\ Slice(script, off + 1, Len(pubkey)) = pubkey

\* isTaprootInput
IsTaprootInput(m) == m.witnessUtxo.given /\ IsP2tr(m.witnessUtxo.v.script)

\* Psbt.prototype.signInput(i, keyPair), i counted from 1; script is what
\* getHashForSig yields for the input
SignForScript(psbt, i, keyPair, script) ==
  IF script.threw THEN script
  ELSE IF ~PubkeyInScript(keyPair.publicKey, script.value)
    THEN Throw(Msg("Can not sign for this input with the key"))
  ELSE IF \E j \in 1..Len(psbt.inputs[i].partialSig) :
            psbt.inputs[i].partialSig[j].pubkey = keyPair.publicKey
    THEN Throw(Msg("Can not add duplicate data to array"))
  ELSE Return([psbt EXCEPT !.inputs[i].partialSig =
                 Append(@, [pubkey |-> keyPair.publicKey,
                            signature |-> Signature(keyPair.publicKey)])])

PsbtSignInput(psbt, i, keyPair) ==
  IF IsTaprootInput(psbt.inputs[i])
    THEN Throw(Msg("Can not sign for input with the key"))
  ELSE SignForScript(psbt, i, keyPair, ScriptForSig(psbt, i))

\* Psbt.prototype.validateSignaturesOfInput(i, () => true)
ValidateForScript(m, script) ==
  IF script.threw THEN script
  ELSE IF \E j \in 1..Len(m.partialSig) :
            ~PubkeyInScript(m.partialSig[j].pubkey, script.value)
    THEN Throw(Msg("Can not verify for this input with the key"))
  ELSE Return(TRUE)

PsbtValidateSignaturesOfInput(psbt, i) ==
  IF IsTaprootInput(psbt.inputs[i]) \/ Len(psbt.inputs[i].partialSig) < 1
    THEN Throw(Msg("No signatures to validate"))
  ELSE ValidateForScript(psbt.inputs[i], ScriptForSig(psbt, i))

\* the script by which finalizeInput classifies the input
ScriptToFinalize(m, prevout) ==
  IF m.witnessScript.given THEN m.witnessScript.v
  ELSE IF m.redeemScript.given THEN m.redeemScript.v
  ELSE IF m.witnessUtxo.given THEN m.witnessUtxo.v.script
  ELSE IF m.nonWitnessUtxo.given /\ ~prevout.threw THEN prevout.value.script
  ELSE <<>>

\* the input map finalized with its one signature sig
FinalizedMap(m, script, sig) ==
  [m EXCEPT !.partialSig = <<>>,
            !.redeemScript = Absent,
            !.witnessScript = Absent,
            !.finalScriptSig =
               IF IsP2pkh(script)
                 THEN Given(VarSlice(sig.signature) \o VarSlice(sig.pubkey))
                 ELSE Absent,
            !.finalScriptWitness =
               IF IsP2wpkh(script)
                 THEN Given(SerializeWitness(<<sig.signature, sig.pubkey>>))
                 ELSE Absent]

\* Psbt.prototype.finalizeInput(i): only key-hash inputs with exactly one
\* signature can be finalized among the scripts that occur here
FinalizeForScript(psbt, i, m, script) ==
  IF IsTaprootInput(m)
    THEN Throw(Msg("Can not finalize taproot input. No tapleaf script found"))
  ELSE IF ~m.witnessUtxo.given /\ ~m.nonWitnessUtxo.given
            /\ ~m.witnessScript.given /\ ~m.redeemScript.given
    THEN Throw(Msg("No script found for input"))
  ELSE IF (IsP2wpkh(script) \/ IsP2pkh(script)) /\ Len(m.partialSig) > 1
    THEN Throw(Msg("Too many signatures"))
  ELSE IF ~((IsP2wpkh(script) \/ IsP2pkh(script)) /\ Len(m.partialSig) = 1)
    THEN Throw(Msg("Can not finalize input"))
  ELSE Return([psbt EXCEPT !.inputs[i] = FinalizedMap(m, script, m.partialSig[1])])

PsbtFinalizeInput(psbt, i) ==
  FinalizeForScript(psbt, i, psbt.inputs[i],
                    ScriptToFinalize(psbt.inputs[i], PrevoutOf(psbt, i)))

\* Psbt.prototype.finalizeAllInputs
RECURSIVE FinalizeFrom(_, _)
RECURSIVE FinalizeNext(_, _, _)
FinalizeNext(psbt, i, r) ==
  IF r.threw THEN [threw |-> TRUE, message |-> r.message, psbt |-> psbt]
  ELSE FinalizeFrom(r.value, i + 1)

FinalizeFrom(psbt, i) ==
  IF i > Len(psbt.inputs) THEN [threw |-> FALSE, psbt |-> psbt]
  ELSE FinalizeNext(psbt, i, PsbtFinalizeInput(psbt, i))

\* the container as the call leaves it, and the error if it threw: the
\* inputs before the failing one stay finalized
PsbtFinalizeAllInputs(psbt) ==
  IF Len(psbt.inputs) = 0
    THEN [threw |-> TRUE, message |-> Msg("No input #0"), psbt |-> psbt]
  ELSE FinalizeFrom(psbt, 1)

\* the amount an input brings, as inputFinalizeGetAmts adds it up
AmountOf(m, prevout) ==
  IF m.witnessUtxo.given THEN m.witnessUtxo.v.value
  ELSE IF m.nonWitnessUtxo.given /\ ~prevout.threw
    THEN Number(prevout.value.value)
  ELSE 0

InputAmount(psbt, i) == AmountOf(psbt.inputs[i], PrevoutOf(psbt, i))

RECURSIVE SumOf(_)
SumOf(ns) == IF Len(ns) = 0 THEN 0 ELSE Head(ns) + SumOf(Tail(ns))

PsbtFee(psbt) ==
  SumOf([i \in 1..Len(psbt.inputs) |-> InputAmount(psbt, i)])
    - SumOf([i \in 1..Len(psbt.tx.outs) |-> Number(psbt.tx.outs[i].value)])

\* the witness stack that a finalScriptWitness holds
WitnessStackOf(buf) == VectorOfLength(buf, ReadVarInt(buf, 0)).v

\* the transaction with the final scripts of its inputs put in
FinalTx(psbt) ==
  [psbt.tx EXCEPT !.ins =
     [i \in 1..Len(psbt.tx.ins) |->
        [psbt.tx.ins[i] EXCEPT
           !.script = IF psbt.inputs[i].finalScriptSig.given
                        THEN psbt.inputs[i].finalScriptSig.v ELSE @,
           !.witness = IF psbt.inputs[i].finalScriptWitness.given
                         THEN WitnessStackOf(psbt.inputs[i].finalScriptWitness.v)
                         ELSE @]]]

\* Psbt.prototype.extractTransaction(disableFeeCheck): the argument switches
\* off the check of the fee rate and nothing else.
CheckFees(fee, tx, disableFeeCheck) ==
  IF fee < 0 THEN Throw(Msg("Outputs are spending more than Inputs"))
  ELSE IF ~disableFeeCheck /\ fee \div TxVirtualSize(tx) >= 5000
    THEN Throw(Msg("Warning: You are paying around too much in fees"))
  ELSE Return(tx)

PsbtExtractTransaction(psbt, disableFeeCheck) ==
  IF \E i \in 1..Len(psbt.inputs) : ~IsFinalized(psbt.inputs[i])
    THEN Throw(Msg("Not finalized"))
  ELSE CheckFees(PsbtFee(psbt), FinalTx(psbt), disableFeeCheck)

---------------------------------------------------------------------------
\* src/tools/transaction.ts

\* (satoshis / 100000000).toFixed(8) + ' BTC': the whole coins, the eight
\* decimals and the unit
formatSatoshis(satoshis) ==
  LET abs == IF satoshis < 0 THEN 0 - satoshis ELSE satoshis IN
  [negative |-> satoshis < 0, whole |-> abs \div 100000000,
   decimals |-> abs % 100000000, unit |-> "BTC"]

\* Psbt.prototype.setVersion and setLocktime
PsbtSetVersion(psbt, version) ==
  IF version < 0 THEN Throw(Msg("Expected UInt32"))
  ELSE Return([psbt EXCEPT !.tx.version = version])
PsbtSetLocktime(psbt, locktime) ==
  IF locktime < 0 THEN Throw(Msg("Expected UInt32"))
  ELSE Return([psbt EXCEPT !.tx.locktime = locktime])

\* one pass of the loop over args.inputs of createTransaction
CreateTxAddInput(psbt, input) ==
  IF ~isValidHex(input.txid) \/ Len(input.txid) # 64
    THEN Throw(MsgS("Invalid txid: ", input.txid))
  ELSE IF input.vout < 0 THEN Throw(MsgN("Invalid vout: ", input.vout))
  ELSE IF input.amount <= 0 THEN Throw(MsgN("Invalid amount: ", input.amount))
  ELSE PsbtAddInput(psbt, input.txid, input.vout,
         [EmptyInputMap EXCEPT !.witnessUtxo =
            Given([script |-> IF Truthy(input.scriptPubKey)
                                THEN BufferFromHex(input.scriptPubKey.v)
                                ELSE <<>>,
                   value |-> input.amount])])

\* the loop over args.inputs, from input i on; r is the container so far or
\* the error thrown
RECURSIVE CreateTxAddInputs(_, _, _)
CreateTxAddInputs(r, inputs, i) ==
  IF r.threw \/ i > Len(inputs) THEN r
  ELSE CreateTxAddInputs(CreateTxAddInput(r.value, inputs[i]), inputs, i + 1)

\* one pass of the loop over args.outputs of createTransaction
CreateTxAddOutput(psbt, network, output) ==
  IF output.amount <= 0
    THEN Throw(MsgN("Invalid output amount: ", output.amount))
  ELSE IF toOutputScript(output.address, network).threw
    THEN Throw(MsgS("Invalid address: ", output.address))
  ELSE PsbtAddOutput(psbt, network, output.address, output.amount)

\* the loop over args.outputs, from output i on
RECURSIVE CreateTxAddOutputs(_, _, _, _)
CreateTxAddOutputs(r, network, outputs, i) ==
  IF r.threw \/ i > Len(outputs) THEN r
  ELSE CreateTxAddOutputs(CreateTxAddOutput(r.value, network, outputs[i]),
                          network, outputs, i + 1)

\* psbt.setLocktime(args.locktime || 0) after setVersion
CreateTxLocktime(r, locktime) ==
  IF r.threw THEN r ELSE PsbtSetLocktime(r.value, locktime)

\* psbt.extractTransaction(true) of the container built
CreateTxExtract(r) ==
  IF r.threw THEN r ELSE PsbtExtractTransaction(r.value, TRUE)

\* the TransactionInfo returned for the extracted transaction
CreateTxInfo(tx) ==
  IF tx.threw THEN tx
  ELSE Return([hex |-> TxToHex(tx.value),
               txid |-> TxGetId(tx.value),
               size |-> TxByteLength(tx.value),
               weight |-> TxWeight(tx.value),
               vsize |-> TxVirtualSize(tx.value)])

createTransaction(args) ==
  IF ~validateNetwork(TextOr(args.network, S_testnet))
    THEN Throw(MsgS("Invalid network: ", TextOr(args.network, S_testnet)))
  ELSE CreateTxInfo(CreateTxExtract(
         CreateTxAddOutputs(
           CreateTxAddInputs(
             CreateTxLocktime(PsbtSetVersion(NewPsbt, NumOr(args.version, 2)),
                              NumOr(args.locktime, 0)),
             args.inputs, 1),
           getNetworkConfig(TextOr(args.network, S_testnet)).value,
           args.outputs, 1)))

\* the address of an output script, undefined when none can be derived
AddressOrUndefined(script, network) ==
  IF fromOutputScript(script, network).threw THEN Absent
  ELSE Given(fromOutputScript(script, network).value)

\* what decodeTransaction returns for the parsed transaction tx
DecodedTransaction(tx, network, hex) ==
  [txid |-> TxGetId(tx),
   version |-> tx.version,
   locktime |-> tx.locktime,
   inputs |-> [i \in 1..Len(tx.ins) |->
                 [txid |-> toHexString(Reverse(tx.ins[i].hash)),
                  vout |-> tx.ins[i].index,
                  scriptSig |-> toHexString(tx.ins[i].script),
                  sequence |-> tx.ins[i].sequence,
                  witness |-> [j \in 1..Len(tx.ins[i].witness) |->
                                 toHexString(tx.ins[i].witness[j])]]],
   outputs |-> [i \in 1..Len(tx.outs) |->
                  [address |-> AddressOrUndefined(tx.outs[i].script, network),
                   script |-> toHexString(tx.outs[i].script),
                   amount |-> Number(tx.outs[i].value)]],
   size |-> TxByteLength(tx),
   weight |-> TxWeight(tx),
   vsize |-> TxVirtualSize(tx),
   hex |-> hex]

\* A decoder that refuses a transaction without inputs.
DecodeParsed_needingInputs(parsed, network, hex) ==
  IF parsed.threw THEN parsed
  ELSE IF Len(parsed.value.ins) = 0
    THEN Throw(Msg("Transaction has no inputs"))
  ELSE Return(DecodedTransaction(parsed.value, network, hex))

DecodeParsed(parsed, network, hex) ==
  IF parsed.threw THEN parsed
  ELSE Return(DecodedTransaction(parsed.value, network, hex))

decodeTransaction(args) ==
  IF ~validateNetwork(TextOr(args.network, S_testnet))
    THEN Throw(MsgS("Invalid network: ", TextOr(args.network, S_testnet)))
  ELSE IF ~isValidHex(args.hex) THEN Throw(Msg("Invalid hex format"))
  ELSE DecodeParsed(TxFromHex(args.hex),
                    getNetworkConfig(TextOr(args.network, S_testnet)).value,
                    args.hex)

\* privateKeys.map(fromWIF ...): the errors pushed for the keys that do not
\* parse, and the key pairs left after the filter
KeyError(kp, i) ==
  IF kp.threw THEN <<MsgNE("Invalid private key at index", i - 1, kp.message)>>
  ELSE <<>>

RECURSIVE KeyErrors(_, _, _)
KeyErrors(privateKeys, network, i) ==
  IF i > Len(privateKeys) THEN <<>>
  ELSE KeyError(fromWIF(privateKeys[i], network), i)
         \o KeyErrors(privateKeys, network, i + 1)

KeyPair(kp) == IF kp.threw THEN <<>> ELSE <<kp.value>>

RECURSIVE KeyPairs(_, _, _)
KeyPairs(privateKeys, network, i) ==
  IF i > Len(privateKeys) THEN <<>>
  ELSE KeyPair(fromWIF(privateKeys[i], network))
         \o KeyPairs(privateKeys, network, i + 1)

\* the signing loops: every key is tried on every input, from input i and
\* key j on, and a key that does not sign is passed over
Signed(psbt, r) == IF r.threw THEN psbt ELSE r.value

RECURSIVE SignWithEach(_, _, _, _)
SignWithEach(psbt, keyPairs, i, j) ==
  IF i > Len(psbt.inputs) THEN psbt
  ELSE IF j > Len(keyPairs) THEN SignWithEach(psbt, keyPairs, i + 1, 1)
  ELSE SignWithEach(Signed(psbt, PsbtSignInput(psbt, i, keyPairs[j])),
                    keyPairs, i, j + 1)

\* the validation loop: one error per input whose signatures do not validate
ValidationError(r, text, i) ==
  IF r.threw THEN <<MsgNE(text, i - 1, r.message)>> ELSE <<>>

RECURSIVE ValidationErrors(_, _, _)
ValidationErrors(psbt, text, i) ==
  IF i > Len(psbt.inputs) THEN <<>>
  ELSE ValidationError(PsbtValidateSignaturesOfInput(psbt, i), text, i)
         \o ValidationErrors(psbt, text, i + 1)

\* A result that hands back the container where the final transaction is due.
SignTxResult_container(psbt, keyErrors, invalid, finalized, finalTx) ==
  IF Len(invalid) = 0 /\ ~finalTx.threw
    THEN Return([hex |-> PsbtToHex(finalized.psbt), signed |-> TRUE,
                 errors |-> Absent])
  ELSE Return([hex |-> PsbtToHex(psbt), signed |-> FALSE,
               errors |-> Given(keyErrors \o invalid)])

\* what signTransaction returns once every input has been tried: psbt is the
\* container after signing, invalid the validation errors, finalized the
\* outcome of finalizeAllInputs and finalTx that of extractTransaction
SignTxResult(psbt, keyErrors, invalid, finalized, finalTx) ==
  IF Len(invalid) = 0 /\ ~finalTx.threw
    THEN Return([hex |-> TxToHex(finalTx.value), signed |-> TRUE,
                 errors |-> Absent])
  ELSE IF Len(invalid) = 0
    THEN Return([hex |-> PsbtToHex(finalized.psbt),
                 signed |-> FALSE,
                 errors |-> Given(Append(keyErrors \o invalid,
                    MsgE("Failed to finalize transaction", finalTx.message)))])
  ELSE Return([hex |-> PsbtToHex(psbt), signed |-> FALSE,
               errors |-> NonEmptyOrUndefined(keyErrors \o invalid)])

SignTxFinalize(psbt, keyErrors, invalid, finalized) ==
  SignTxResult(psbt, keyErrors, invalid, finalized,
               IF finalized.threw THEN Throw(finalized.message)
               ELSE PsbtExtractTransaction(finalized.psbt, FALSE))

SignTxValidate(psbt, keyErrors) ==
  SignTxFinalize(psbt, keyErrors,
                 ValidationErrors(psbt, "Failed to validate input", 1),
                 PsbtFinalizeAllInputs(psbt))

SignTxWithKeys(psbt, keyErrors, keyPairs) ==
  IF Len(keyPairs) = 0 THEN Throw(Msg("No valid private keys provided"))
  ELSE SignTxValidate(SignWithEach(psbt, keyPairs, 1, 1), keyErrors)

SignTxParsed(parsed, privateKeys, network) ==
  IF parsed.threw THEN parsed
  ELSE SignTxWithKeys(parsed.value, KeyErrors(privateKeys, network, 1),
                      KeyPairs(privateKeys, network, 1))

signTransaction(args) ==
  IF ~validateNetwork(TextOr(args.network, S_testnet))
    THEN Throw(MsgS("Invalid network: ", TextOr(args.network, S_testnet)))
  ELSE IF ~isValidHex(args.hex) THEN Throw(Msg("Invalid hex format"))
  ELSE SignTxParsed(PsbtFromHex(args.hex), args.privateKeys,
                    getNetworkConfig(TextOr(args.network, S_testnet)).value)

\* Math.ceil(a / 4)
Ceil4(a) == 0 - ((0 - a) \div 4)
\* a fee rate, a number that need not be whole: num / den with den > 0
Rate(num, den) == [num |-> num, den |-> den]
\* Math.ceil(vsize * feeRate)
CeilTimes(vsize, feeRate) == 0 - ((0 - vsize * feeRate.num) \div feeRate.den)

estimateTransactionFee(args) ==
  IF args.inputs <= 0 \/ args.outputs <= 0
    THEN Throw(Msg("Inputs and outputs must be positive numbers"))
  ELSE IF args.feeRate.num <= 0 THEN Throw(Msg("Fee rate must be positive"))
  ELSE
  LET inputType == StrOr(args.inputType, "segwit")
      hasWitness == inputType = "segwit" \/ inputType = "taproot"
  IN IF inputType \notin {"legacy", "segwit", "taproot"}
       THEN Throw(MsgW("Unknown input type: ", inputType))
     ELSE
  LET inputSize == IF inputType = "legacy" THEN 148 ELSE 68
      witnessSize == CASE inputType = "segwit" -> 107
                       [] inputType = "taproot" -> 65
                       [] OTHER -> 0
      outputSize == 34
      baseSize == 10
      size == baseSize + (args.inputs * inputSize) + (args.outputs * outputSize)
      witnessData == args.inputs * witnessSize + 2
      weight == IF hasWitness
                  THEN (size - (args.inputs * witnessSize)) * 4 + witnessData
                  ELSE size * 4
      vsize == Ceil4(weight)
      fee == CeilTimes(vsize, args.feeRate)
  IN Return([size |-> IF hasWitness
                        THEN size - (args.inputs * witnessSize)
                               + Ceil4(args.inputs * witnessSize)
                        ELSE size,
             vsize |-> vsize,
             weight |-> weight,
             fee |-> fee,
             feeRate |-> args.feeRate,
             feeFormatted |-> formatSatoshis(fee)])

\* Checks that stop at the first one violated.
TxCheckErrors_firstOnly(tx) ==
  IF Len(tx.ins) = 0 THEN <<Msg("Transaction has no inputs")>>
  ELSE IF Len(tx.outs) = 0 THEN <<Msg("Transaction has no outputs")>>
  ELSE IF HasDuplicateIns(tx.ins) THEN <<Msg("Transaction has duplicate inputs")>>
  ELSE IF \E i \in 1..Len(tx.outs) : tx.outs[i].value.coins < 0
    THEN <<Msg("Negative output value found")>>
  ELSE IF AmtSum([i \in 1..Len(tx.outs) |-> tx.outs[i].value]).coins >= 21000001
    THEN <<Msg("Total output exceeds maximum Bitcoin supply")>>
  ELSE <<>>

\* the checks of validateTransaction on a parsed transaction, in order
TxCheckErrors(tx) ==
  LET totalOutput == AmtSum([i \in 1..Len(tx.outs) |-> tx.outs[i].value]) IN
  (IF Len(tx.ins) = 0 THEN <<Msg("Transaction has no inputs")>> ELSE <<>>)
    \o (IF Len(tx.outs) = 0 THEN <<Msg("Transaction has no outputs")>> ELSE <<>>)
    \o (IF HasDuplicateIns(tx.ins)
          THEN <<Msg("Transaction has duplicate inputs")>> ELSE <<>>)
    \o Concat([i \in 1..Len(tx.outs) |->
                 IF tx.outs[i].value.coins < 0
                   THEN <<Msg("Negative output value found")>> ELSE <<>>])
    \o (IF totalOutput.coins > 21000000
           \/ (totalOutput.coins = 21000000 /\ totalOutput.sats > 0)
          THEN <<Msg("Total output exceeds maximum Bitcoin supply")>>
          ELSE <<>>)

\* what validateTransaction returns for the transaction parsed, errors being
\* the outcome of its checks
ValidationResult(tx, errors) ==
  Return([valid |-> Len(errors) = 0,
          txid |-> Given(TxGetId(tx)),
          size |-> Given(TxByteLength(tx)),
          errors |-> NonEmptyOrUndefined(errors)])

ValidateParsed(parsed) ==
  IF parsed.threw
    THEN Return([valid |-> FALSE, txid |-> Absent, size |-> Absent,
                 errors |-> Given(<<MsgE("Failed to parse transaction",
                                         parsed.message)>>)])
  ELSE ValidationResult(parsed.value, TxCheckErrors(parsed.value))

\* the handler of broadcast_transaction
validateTransaction(args) ==
  IF ~validateNetwork(TextOr(args.network, S_testnet))
    THEN Throw(MsgS("Invalid network: ", TextOr(args.network, S_testnet)))
  ELSE IF ~isValidHex(args.hex)
    THEN Return([valid |-> FALSE, txid |-> Absent, size |-> Absent,
                 errors |-> Given(<<Msg("Invalid hex format")>>)])
  ELSE ValidateParsed(TxFromHex(args.hex))

\* A switch that lacks its last case.
TransactionCases_withoutBroadcast ==
  {"create_transaction", "decode_transaction", "sign_transaction",
   "estimate_transaction_fee"}

\* handleTransactionTool: the switch over the tool name
TransactionCases ==
  {"create_transaction", "decode_transaction", "sign_transaction",
   "estimate_transaction_fee", "broadcast_transaction"}

handleTransactionTool(name, args) ==
  IF name \notin TransactionCases
    THEN Throw(MsgT("Unknown transaction tool: ", name)) ELSE
  CASE name = "create_transaction" -> createTransaction(args)
    [] name = "decode_transaction" -> decodeTransaction(args)
    [] name = "sign_transaction" -> signTransaction(args)
    [] name = "estimate_transaction_fee" -> estimateTransactionFee(args)
    [] name = "broadcast_transaction" -> validateTransaction(args)
    [] OTHER -> Throw(MsgT("Unknown transaction tool: ", name))

\* the names of the registry transactionTools, in its order
transactionTools ==
  <<"create_transaction", "decode_transaction", "sign_transaction",
    "estimate_transaction_fee", "broadcast_transaction">>

---------------------------------------------------------------------------
\* src/tools/address.ts

S_p2pkh == <<"p","2","p","k","h">>
S_p2sh == <<"p","2","s","h">>
S_p2wpkh == <<"p","2","w","p","k","h">>
S_p2wsh == <<"p","2","w","s","h">>
S_p2tr == <<"p","2","t","r">>
S_unknown == <<"u","n","k","n","o","w","n">>

\* bitcoin.script.decompile: the chunks of a script, each an opcode or a
\* pushed buffer; null (here [ok |-> FALSE]) when a push runs past the end
RECURSIVE Decompile(_, _)
Decompile(script, off) ==
  IF off >= Len(script) THEN [ok |-> TRUE, chunks |-> <<>>]
  ELSE LET b == script[off + 1] IN
    IF b >= 1 /\ b <= 75
      THEN IF Len(script) < off + 1 + b THEN [ok |-> FALSE, chunks |-> <<>>]
           ELSE LET rest == Decompile(script, off + 1 + b) IN
                [ok |-> rest.ok,
                 chunks |-> <<[op |-> -1, data |-> Slice(script, off + 1, b)]>>
                              \o rest.chunks]
    ELSE IF b = 76
      THEN IF Len(script) < off + 2 \/ Len(script) < off + 2 + script[off + 2]
             THEN [ok |-> FALSE, chunks |-> <<>>]
           ELSE LET rest == Decompile(script, off + 2 + script[off + 2]) IN
                [ok |-> rest.ok,
                 chunks |-> <<[op |-> -1,
                               data |-> Slice(script, off + 2, script[off + 2])]>>
                              \o rest.chunks]
    ELSE LET rest == Decompile(script, off + 1) IN
         [ok |-> rest.ok, chunks |-> <<[op |-> b, data |-> <<>>]>> \o rest.chunks]

\* bitcoin.script.toASM: the opcodes by number and the pushes as hex text
toASM(script) ==
  LET d == Decompile(script, 0).chunks IN
  [i \in 1..Len(d) |-> [op |-> d[i].op, hex |-> toHexString(d[i].data)]]

\* a buffer is a point of the curve, as far as its length and prefix tell
isPoint(p) ==
  \/ Len(p) = 33 /\ p[1] \in {2, 3}
  \/ Len(p) = 65 /\ p[1] = 4

\* bitcoin.payments.p2pkh({ pubkey, network })
PaymentP2pkh(pubkey, network) ==
  IF ~isPoint(pubkey) THEN Throw(Msg("Expected property \"pubkey\" of type ?isPoint"))
  ELSE Return([address |-> Base58Addr(network.pubKeyHash, hash160(pubkey)[1]),
               output |-> P2pkhScript(hash160(pubkey)[1])])

\* bitcoin.payments.p2wpkh({ pubkey, network })
PaymentP2wpkh(pubkey, network) ==
  IF ~isPoint(pubkey) \/ Len(pubkey) # 33
    THEN Throw(Msg("Invalid pubkey for p2wpkh"))
  ELSE Return([address |-> Bech32Addr(network.bech32, 0, 20, hash160(pubkey)[1]),
               output |-> P2wpkhScript(hash160(pubkey)[1])])

\* bitcoin.payments.p2sh({ redeem: { output }, network })
PaymentP2sh(redeemOutput, network) ==
  IF ~Decompile(redeemOutput, 0).ok \/ Len(redeemOutput) = 0
    THEN Throw(Msg("Redeem.output too short"))
  ELSE IF Len(redeemOutput) > 520
    THEN Throw(Msg("Redeem.output unspendable if larger than 520 bytes"))
  ELSE Return([address |-> Base58Addr(network.scriptHash, hash160(redeemOutput)[1]),
               output |-> P2shScript(hash160(redeemOutput)[1])])

\* bitcoin.payments.p2wsh({ redeem: { output }, network })
PaymentP2wsh(redeemOutput, network) ==
  IF ~Decompile(redeemOutput, 0).ok \/ Len(redeemOutput) = 0
    THEN Throw(Msg("Redeem.output is invalid"))
  ELSE Return([address |-> Bech32Addr(network.bech32, 0, 32, sha256(redeemOutput)[1]),
               output |-> P2wshScript(sha256(redeemOutput)[1])])

\* bitcoin.payments.p2tr({ internalPubkey, network }): the output key is
\* the internal key tweaked by its tagged hash
PaymentP2tr(internalPubkey, network) ==
  IF Len(internalPubkey) # 32
    THEN Throw(Msg("Expected property \"internalPubkey\" of type Buffer(Length: 32)"))
  ELSE Return([address |-> Bech32Addr(network.bech32, 1, 32,
                                      taggedHash("TapTweak", internalPubkey).value[1]),
               output |-> P2trOutput(taggedHash("TapTweak", internalPubkey).value)])

generateAddress(args) ==
  LET networkName == TextOr(args.network, S_testnet) IN
  IF ~validateNetwork(networkName)
    THEN Throw(MsgS("Invalid network: ", networkName))
  ELSE
  LET network == getNetworkConfig(networkName).value IN
  IF Truthy(args.publicKey)
       /\ Len(BufferFromHex(args.publicKey.v)) \notin {33, 65}
    THEN Throw(Msg("Invalid public key length"))
  ELSE IF ~Truthy(args.publicKey)
    \* bitcoin.ECPair is not an export of the bitcoinjs-lib that has
    \* initEccLib, so the call on it is a TypeError
    THEN Throw(Msg("Cannot read properties of undefined (reading 'makeRandom')"))
  ELSE
  LET pubkey == BufferFromHex(args.publicKey.v)
      type == toLowerCase(args.type)
      info(payment, t, redeemScript, witnessScript) ==
        IF payment.threw THEN payment
        ELSE Return([address |-> payment.value.address, type |-> t,
                     network |-> networkName,
                     script |-> toHexString(payment.value.output),
                     redeemScript |-> redeemScript,
                     witnessScript |-> witnessScript])
  IN CASE type = S_p2pkh ->
            info(PaymentP2pkh(pubkey, network), S_p2pkh, Absent, Absent)
       [] type = S_p2wpkh ->
            info(PaymentP2wpkh(pubkey, network), S_p2wpkh, Absent, Absent)
       [] type = S_p2sh /\ ~Truthy(args.redeemScript) ->
            LET p2wpkh == PaymentP2wpkh(pubkey, network) IN
            IF p2wpkh.threw THEN p2wpkh
            ELSE info(PaymentP2sh(p2wpkh.value.output, network), S_p2sh,
                      Given(toHexString(p2wpkh.value.output)), Absent)
       [] type = S_p2sh /\ Truthy(args.redeemScript) ->
            info(PaymentP2sh(BufferFromHex(args.redeemScript.v), network),
                 S_p2sh, Given(args.redeemScript.v), Absent)
       [] type = S_p2wsh /\ ~Truthy(args.witnessScript) ->
            Throw(Msg("Witness script required for P2WSH address"))
       [] type = S_p2wsh /\ Truthy(args.witnessScript) ->
            info(PaymentP2wsh(BufferFromHex(args.witnessScript.v), network),
                 S_p2wsh, Absent, Given(args.witnessScript.v))
       [] type = S_p2tr ->
            info(PaymentP2tr(Slice(pubkey, 1, 32), network), S_p2tr,
                 Absent, Absent)
       [] OTHER -> Throw(MsgS("Unsupported address type: ", args.type))

\* isValidAddress(address, network) of src/utils/bitcoin.ts with a network
isValidAddress(address, network) == ~toOutputScript(address, network).threw

\* getAddressType: the first payment built from the output script, p2pkh,
\* throws on every script that is not pay-to-pubkey-hash, and the catch
\* answers 'unknown'
getAddressType(address, network) ==
  LET outputScript == toOutputScript(address, network) IN
  IF outputScript.threw THEN S_unknown
  ELSE IF ~IsP2pkh(outputScript.value) THEN S_unknown
  ELSE IF Base58Addr(network.pubKeyHash, outputScript.value[4]) = address
    THEN S_p2pkh
  ELSE S_unknown

\* An order that tries regtest before testnet.
NetworkOrder_regtestFirst == <<S_mainnet, S_regtest, S_testnet>>

\* the networks tried in turn when none is named
NetworkOrder == <<S_mainnet, S_testnet, S_regtest>>

\* the first network of NetworkOrder the address is valid for, 0 for none
DetectNetwork(address) ==
  LET ok == {i \in 1..3 :
               isValidAddress(address, getNetworkConfig(NetworkOrder[i]).value)}
  IN IF ok = {} THEN 0 ELSE CHOOSE i \in ok : \A j \in ok : i <= j

validateAddress(args) ==
  LET invalid(error) == Return([valid |-> FALSE, network |-> Absent,
                                type |-> Absent, error |-> Given(error)])
      valid(networkName, network) ==
        Return([valid |-> TRUE, network |-> Given(networkName),
                type |-> Given(getAddressType(args.address, network)),
                error |-> Absent])
  IN IF Truthy(args.network)
       THEN LET network == getNetworkConfig(args.network.v) IN
            IF network.threw THEN invalid(network.message)
            ELSE IF isValidAddress(args.address, network.value)
              THEN valid(args.network.v, network.value)
            ELSE invalid(MsgS("Invalid address for ", args.network.v))
     ELSE LET i == DetectNetwork(args.address) IN
          IF i = 0
            THEN invalid(Msg("Invalid address format or unsupported network"))
          ELSE valid(NetworkOrder[i], getNetworkConfig(NetworkOrder[i]).value)

decodeAddress(args) ==
  LET failed(m) == Throw(MsgE("Failed to decode address", m))
      decoded(networkName, network) ==
        LET outputScript == toOutputScript(args.address, network) IN
        IF outputScript.threw THEN failed(outputScript.message)
        ELSE Return([address |-> args.address,
                     network |-> networkName,
                     type |-> getAddressType(args.address, network),
                     script |-> toHexString(outputScript.value),
                     scriptAsm |-> toASM(outputScript.value)])
  IN IF Truthy(args.network)
       THEN LET network == getNetworkConfig(args.network.v) IN
            IF network.threw THEN failed(network.message)
            ELSE decoded(args.network.v, network.value)
     ELSE LET i == DetectNetwork(args.address) IN
          IF i = 0 THEN failed(Msg("Cannot detect network for address"))
          ELSE decoded(NetworkOrder[i], getNetworkConfig(NetworkOrder[i]).value)

addressFromScript(args) ==
  LET networkName == TextOr(args.network, S_testnet) IN
  IF ~validateNetwork(networkName)
    THEN Throw(MsgS("Invalid network: ", networkName))
  ELSE
  LET network == getNetworkConfig(networkName).value
      script == BufferFromHex(args.script)
      type == toLowerCase(args.type)
      info(payment, t, redeemScript, witnessScript) ==
        IF payment.threw THEN payment
        ELSE Return([address |-> payment.value.address, type |-> t,
                     network |-> networkName,
                     script |-> toHexString(payment.value.output),
                     redeemScript |-> redeemScript,
                     witnessScript |-> witnessScript])
  IN CASE type = S_p2sh ->
            info(PaymentP2sh(script, network), S_p2sh, Given(args.script), Absent)
       [] type = S_p2wsh ->
            info(PaymentP2wsh(script, network), S_p2wsh, Absent, Given(args.script))
       [] OTHER -> Throw(MsgS("Unsupported script-to-address type: ", args.type))

\* handleAddressTool: the switch over the tool name
AddressCases ==
  {"generate_address", "validate_address", "decode_address",
   "address_from_script"}

handleAddressTool(name, args) ==
  IF name \notin AddressCases
    THEN Throw(MsgT("Unknown address tool: ", name)) ELSE
  CASE name = "generate_address" -> generateAddress(args)
    [] name = "validate_address" -> validateAddress(args)
    [] name = "decode_address" -> decodeAddress(args)
    [] name = "address_from_script" -> addressFromScript(args)
    [] OTHER -> Throw(MsgT("Unknown address tool: ", name))

\* the names of the registry addressTools, in its order
addressTools ==
  <<"generate_address", "validate_address", "decode_address",
    "address_from_script">>

---------------------------------------------------------------------------
\* src/tools/psbt.ts

\* an optional hex text as an optional buffer; the empty text counts as absent
BufferOpt(opt) == IF Truthy(opt) THEN Given(BufferFromHex(opt.v)) ELSE Absent

\* the unsigned 64-bit writer refuses a negative amount
PsbtSerializable(psbt) ==
  \A i \in 1..Len(psbt.inputs) :
     psbt.inputs[i].witnessUtxo.given => psbt.inputs[i].witnessUtxo.v.value >= 0

\* the inputData createPSBT builds for one input
CreatePsbtInputData(input) ==
  [EmptyInputMap EXCEPT
     !.witnessUtxo =
        IF input.witnessUtxo.given
          THEN Given([script |-> BufferFromHex(input.witnessUtxo.v.script),
                      value |-> input.witnessUtxo.v.value])
        ELSE IF Truthy(input.scriptPubKey) /\ input.amount # 0
          THEN Given([script |-> BufferFromHex(input.scriptPubKey.v),
                      value |-> input.amount])
        ELSE Absent,
     !.nonWitnessUtxo = BufferOpt(input.nonWitnessUtxo),
     !.redeemScript = BufferOpt(input.redeemScript),
     !.witnessScript = BufferOpt(input.witnessScript)]

\* one pass of the loop over args.inputs of createPSBT
CreatePsbtAddInput(psbt, input) ==
  IF ~isValidHex(input.txid) \/ Len(input.txid) # 64
    THEN Throw(MsgS("Invalid txid: ", input.txid))
  ELSE PsbtAddInput(psbt, input.txid, input.vout, CreatePsbtInputData(input))

\* the loop over args.inputs of createPSBT, from input i on; r is the
\* container so far or the error thrown
RECURSIVE CreatePsbtAddInputs(_, _, _)
CreatePsbtAddInputs(r, inputs, i) ==
  IF r.threw \/ i > Len(inputs) THEN r
  ELSE CreatePsbtAddInputs(CreatePsbtAddInput(r.value, inputs[i]), inputs, i + 1)

\* if (args.version) psbt.setVersion(args.version)
CreatePsbtVersion(version) ==
  IF NumOr(version, 0) # 0 THEN PsbtSetVersion(NewPsbt, version.v)
  ELSE Return(NewPsbt)

\* if (args.locktime) psbt.setLocktime(args.locktime)
CreatePsbtLocktime(r, locktime) ==
  IF r.threw THEN r
  ELSE IF NumOr(locktime, 0) # 0 THEN PsbtSetLocktime(r.value, locktime.v)
  ELSE r

\* psbt.toHex() and psbt.toBase64() of the container built
PsbtSerialized(r) ==
  IF r.threw THEN r
  ELSE IF ~PsbtSerializable(r.value)
    THEN Throw(Msg("specified a negative value for writing an unsigned value"))
  ELSE Return([psbt |-> PsbtToHex(r.value),
               base64 |-> PsbtToBase64(r.value)])

createPSBT(args) ==
  IF ~validateNetwork(TextOr(args.network, S_testnet))
    THEN Throw(MsgS("Invalid network: ", TextOr(args.network, S_testnet)))
  ELSE PsbtSerialized(
         CreateTxAddOutputs(
           CreatePsbtAddInputs(
             CreatePsbtLocktime(CreatePsbtVersion(args.version), args.locktime),
             args.inputs, 1),
           getNetworkConfig(TextOr(args.network, S_testnet)).value,
           args.outputs, 1))

\* the parse every PSBT handler starts with: base64 when the text matches
\* the base64 pattern, hex otherwise
ParsePsbt(text) ==
  IF MatchesBase64(text) THEN PsbtFromBase64(text) ELSE PsbtFromHex(text)

OptHex(opt) == IF opt.given THEN Given(toHexString(opt.v)) ELSE Absent

\* what decodePSBT returns for the container psbt, tx being its extracted
\* transaction and fee its fee
DecodedPsbt(psbt, tx, network, fee) ==
  [version |-> tx.version,
   locktime |-> tx.locktime,
   inputs |->
     [i \in 1..Len(psbt.inputs) |->
        [index |-> i - 1,
         txid |-> toHexString(Reverse(tx.ins[i].hash)),
         vout |-> tx.ins[i].index,
         sequence |-> tx.ins[i].sequence,
         witnessUtxo |->
           IF psbt.inputs[i].witnessUtxo.given
             THEN Given([script |-> toHexString(psbt.inputs[i].witnessUtxo.v.script),
                         value |-> psbt.inputs[i].witnessUtxo.v.value])
             ELSE Absent,
         nonWitnessUtxo |-> OptHex(psbt.inputs[i].nonWitnessUtxo),
         redeemScript |-> OptHex(psbt.inputs[i].redeemScript),
         witnessScript |-> OptHex(psbt.inputs[i].witnessScript),
         partialSig |->
           [j \in 1..Len(psbt.inputs[i].partialSig) |->
              [pubkey |-> toHexString(psbt.inputs[i].partialSig[j].pubkey),
               signature |-> toHexString(psbt.inputs[i].partialSig[j].signature)]],
         sighashType |-> Absent]],
   outputs |->
     [i \in 1..Len(tx.outs) |->
        [index |-> i - 1,
         address |-> AddressOrUndefined(tx.outs[i].script, network),
         script |-> toHexString(tx.outs[i].script),
         amount |-> Number(tx.outs[i].value),
         redeemScript |-> Absent,
         witnessScript |-> Absent]],
   fee |-> fee,
   feeRate |-> fee \div TxVirtualSize(tx),
   extractable |-> TRUE]

\* checked is the outcome of the second extraction, the one for the fee
DecodeChecked(psbt, tx, network, checked) ==
  IF checked.threw THEN checked
  ELSE Return(DecodedPsbt(psbt, tx, network, PsbtFee(psbt)))

DecodeExtracted(psbt, extracted, network) ==
  IF extracted.threw THEN extracted
  ELSE DecodeChecked(psbt, extracted.value, network,
                     PsbtExtractTransaction(psbt, FALSE))

DecodePsbtParsed(parsed, network) ==
  IF parsed.threw THEN Throw(MsgE("Invalid PSBT format", parsed.message))
  ELSE DecodeExtracted(parsed.value,
                       PsbtExtractTransaction(parsed.value, TRUE), network)

decodePSBT(args) ==
  IF ~validateNetwork(TextOr(args.network, S_testnet))
    THEN Throw(MsgS("Invalid network: ", TextOr(args.network, S_testnet)))
  ELSE DecodePsbtParsed(ParsePsbt(args.psbt),
                        getNetworkConfig(TextOr(args.network, S_testnet)).value)

\* bitcoin.ECPair.fromWIF: bitcoinjs-lib has no export ECPair, so the call
\* is a TypeError whatever the key
BitcoinECPairFromWIF(wif, network) ==
  Throw(Msg("Cannot read properties of undefined (reading 'fromWIF')"))

\* privateKeys.map(...) of signPSBT: the errors and the key pairs left
RECURSIVE PsbtKeyErrors(_, _, _)
PsbtKeyErrors(privateKeys, network, i) ==
  IF i > Len(privateKeys) THEN <<>>
  ELSE KeyError(BitcoinECPairFromWIF(privateKeys[i], network), i)
         \o PsbtKeyErrors(privateKeys, network, i + 1)

RECURSIVE PsbtKeyPairs(_, _, _)
PsbtKeyPairs(privateKeys, network, i) ==
  IF i > Len(privateKeys) THEN <<>>
  ELSE KeyPair(BitcoinECPairFromWIF(privateKeys[i], network))
         \o PsbtKeyPairs(privateKeys, network, i + 1)

\* what signPSBT returns for the container after the signing loops
SignPsbtResult(psbt, errors) ==
  Return([psbt |-> PsbtToHex(psbt),
          base64 |-> PsbtToBase64(psbt),
          signed |-> Len(ValidationErrors(psbt, "", 1)) = 0,
          errors |-> NonEmptyOrUndefined(errors)])

SignPsbtWithKeys(psbt, errors, keyPairs) ==
  IF Len(keyPairs) = 0 THEN Throw(Msg("No valid private keys provided"))
  ELSE SignPsbtResult(SignWithEach(psbt, keyPairs, 1, 1), errors)

SignPsbtParsed(parsed, privateKeys, network) ==
  IF parsed.threw THEN Throw(MsgE("Invalid PSBT format", parsed.message))
  ELSE SignPsbtWithKeys(parsed.value, PsbtKeyErrors(privateKeys, network, 1),
                        PsbtKeyPairs(privateKeys, network, 1))

signPSBT(args) ==
  IF ~validateNetwork(TextOr(args.network, S_testnet))
    THEN Throw(MsgS("Invalid network: ", TextOr(args.network, S_testnet)))
  ELSE SignPsbtParsed(ParsePsbt(args.psbt), args.privateKeys,
                      getNetworkConfig(TextOr(args.network, S_testnet)).value)

\* the answer of finalizePSBT when the container is not finalized
NotFinalized(errors) ==
  Return([finalized |-> FALSE, hex |-> Absent, txid |-> Absent,
          errors |-> Given(errors)])

\* A result that lets the failure of the finalization out of the handler.
FinalizeResult_rethrow(tx) ==
  IF tx.threw THEN Throw(MsgE("Finalization failed", tx.message))
  ELSE Return([finalized |-> TRUE,
               hex |-> Given(TxToHex(tx.value)),
               txid |-> Given(TxGetId(tx.value)),
               errors |-> Absent])

FinalizeResult(tx) ==
  IF tx.threw THEN NotFinalized(<<MsgE("Finalization failed", tx.message)>>)
  ELSE Return([finalized |-> TRUE,
               hex |-> Given(TxToHex(tx.value)),
               txid |-> Given(TxGetId(tx.value)),
               errors |-> Absent])

FinalizeExtract(finalized) ==
  FinalizeResult(IF finalized.threw THEN Throw(finalized.message)
                 ELSE PsbtExtractTransaction(finalized.psbt, FALSE))

FinalizeValidated(psbt, errors) ==
  IF Len(errors) > 0 THEN NotFinalized(errors)
  ELSE FinalizeExtract(PsbtFinalizeAllInputs(psbt))

FinalizeParsed(parsed) ==
  IF parsed.threw THEN Throw(MsgE("Invalid PSBT format", parsed.message))
  ELSE FinalizeValidated(parsed.value,
         ValidationErrors(parsed.value, "Input validation failed", 1))

finalizePSBT(args) ==
  IF ~validateNetwork(TextOr(args.network, S_testnet))
    THEN Throw(MsgS("Invalid network: ", TextOr(args.network, S_testnet)))
  ELSE FinalizeParsed(ParsePsbt(args.psbt))

\* the maps of one input merged as bip174 combines them: a key the first
\* map lacks is taken from the second
CombineInputMaps(a, b) ==
  LET pick(x, y) == IF x.given THEN x ELSE y
      more(xs, ys) ==
        xs \o SelectSeq(ys, LAMBDA y :
                 \A i \in 1..Len(xs) : xs[i].pubkey # y.pubkey)
  IN [witnessUtxo |-> pick(a.witnessUtxo, b.witnessUtxo),
      nonWitnessUtxo |-> pick(a.nonWitnessUtxo, b.nonWitnessUtxo),
      redeemScript |-> pick(a.redeemScript, b.redeemScript),
      witnessScript |-> pick(a.witnessScript, b.witnessScript),
      partialSig |-> more(a.partialSig, b.partialSig),
      bip32Derivation |-> more(a.bip32Derivation, b.bip32Derivation),
      finalScriptSig |-> pick(a.finalScriptSig, b.finalScriptSig),
      finalScriptWitness |-> pick(a.finalScriptWitness, b.finalScriptWitness)]

\* Psbt.prototype.combine(...those), from the k-th of those on
RECURSIVE PsbtCombine(_, _, _)
PsbtCombine(psbt, those, k) ==
  IF k > Len(those) THEN Return(psbt)
  ELSE IF SerializeTx(those[k].tx, FALSE) # SerializeTx(psbt.tx, FALSE)
    THEN Throw(Msg("Combine: One of the Psbts does not have the same transaction."))
  ELSE PsbtCombine(
         [psbt EXCEPT !.inputs =
            [i \in 1..Len(psbt.inputs) |->
               CombineInputMaps(psbt.inputs[i], those[k].inputs[i])]],
         those, k + 1)

\* args.psbts.map(...): each text parsed
ParseAll(texts) == [i \in 1..Len(texts) |-> ParsePsbt(texts[i])]

\* the index of the first text that did not parse, 0 when all parsed
FirstUnparsed(parsed) ==
  LET bad == {i \in 1..Len(parsed) : parsed[i].threw} IN
  IF bad = {} THEN 0 ELSE CHOOSE i \in bad : \A j \in bad : i <= j

CombineResult(combined) ==
  IF combined.threw
    THEN Throw(MsgE("Failed to combine PSBTs", combined.message))
  ELSE Return([psbt |-> PsbtToHex(combined.value),
               base64 |-> PsbtToBase64(combined.value)])

CombineParsed(parsed, first) ==
  IF first # 0
    THEN Throw(MsgNE("Invalid PSBT format at index", first - 1,
                     parsed[first].message))
  ELSE CombineResult(
         PsbtCombine(parsed[1].value,
                     [i \in 1..(Len(parsed) - 1) |-> parsed[i + 1].value], 1))

CombineAll(parsed) == CombineParsed(parsed, FirstUnparsed(parsed))

combinePSBTs(args) ==
  IF ~validateNetwork(TextOr(args.network, S_testnet))
    THEN Throw(MsgS("Invalid network: ", TextOr(args.network, S_testnet)))
  ELSE IF Len(args.psbts) < 2
    THEN Throw(Msg("At least 2 PSBTs are required for combination"))
  ELSE CombineAll(ParseAll(args.psbts))

\* the value bytes of a derivation path as bip174 encodes it: four bytes per
\* level after the first, the top bit set for a hardened level
PathBytes(path) ==
  LET levels == Tail(Split(path, "/"))
      level(t) ==
        LET isHard == Len(t) > 0 /\ t[Len(t)] = "'"
            parsed == parseInt(IF isHard THEN SubSeq(t, 1, Len(t) - 1) ELSE t)
            num == IF parsed.nan THEN 0
                   ELSE IF parsed.v < 0 THEN (2147483647 + parsed.v) + 1
                   ELSE parsed.v
            b == LE(num, 4)
        IN IF isHard THEN [b EXCEPT ![4] = @ + 128] ELSE b
  IN Concat([i \in 1..Len(levels) |-> level(levels[i])])

\* Psbt.prototype.updateInput(i, { field: value }) for a single-valued
\* field: data the input already has is not replaced
PsbtUpdateField(psbt, i, field, value) ==
  IF field = "witnessScript" /\ (IsP2wpkh(value) \/ IsP2sh(value))
    THEN Throw(Msg("P2WPKH or P2SH can not be contained within P2WSH"))
  ELSE IF psbt.inputs[i][field].given
    THEN Throw(MsgS("Can not add duplicate data to input", <<>>))
  ELSE IF field = "nonWitnessUtxo" /\ TxFromBuffer(value).threw
    THEN TxFromBuffer(value)
  ELSE Return([psbt EXCEPT !.inputs[i][field] = Given(value)])

\* one bip32Derivation entry as the container keeps it
DerivationOf(entry) ==
  [pubkey |-> BufferFromHex(entry.pubkey),
   masterFingerprint |-> BufferFromHex(entry.masterFingerprint),
   path |-> PathBytes(entry.path)]

\* Psbt.prototype.updateInput(i, { bip32Derivation }) for one entry d
PsbtAddDerivation(psbt, i, d) ==
  IF ~(Len(d.pubkey) \in {33, 65} /\ d.pubkey[1] \in {2, 3, 4}
         /\ Len(d.masterFingerprint) = 4)
    THEN Throw(Msg("Data for input key bip32Derivation is incorrect"))
  ELSE IF \E j \in 1..Len(psbt.inputs[i].bip32Derivation) :
            psbt.inputs[i].bip32Derivation[j].pubkey = d.pubkey
    THEN Throw(Msg("Can not add duplicate data to array"))
  ELSE Return([psbt EXCEPT !.inputs[i].bip32Derivation = Append(@, d)])

\* the entries of bip32Derivation, from entry k on
RECURSIVE PsbtUpdateDerivations(_, _, _, _)
PsbtUpdateDerivations(r, i, derivs, k) ==
  IF r.threw \/ k > Len(derivs) THEN r
  ELSE PsbtUpdateDerivations(
         PsbtAddDerivation(r.value, i, DerivationOf(derivs[k])), i, derivs, k + 1)

\* the five updates of updatePSBT, in the order of the source; r is the
\* container so far or the error thrown
UpdateWitnessUtxo(r, i, updates) ==
  IF r.threw \/ ~updates.witnessUtxo.given THEN r
  ELSE PsbtUpdateField(r.value, i, "witnessUtxo",
         [script |-> BufferFromHex(updates.witnessUtxo.v.script),
          value |-> updates.witnessUtxo.v.value])

UpdateNonWitnessUtxo(r, i, updates) ==
  IF r.threw \/ ~Truthy(updates.nonWitnessUtxo) THEN r
  ELSE PsbtUpdateField(r.value, i, "nonWitnessUtxo",
                       BufferFromHex(updates.nonWitnessUtxo.v))

UpdateRedeemScript(r, i, updates) ==
  IF r.threw \/ ~Truthy(updates.redeemScript) THEN r
  ELSE PsbtUpdateField(r.value, i, "redeemScript",
                       BufferFromHex(updates.redeemScript.v))

UpdateWitnessScript(r, i, updates) ==
  IF r.threw \/ ~Truthy(updates.witnessScript) THEN r
  ELSE PsbtUpdateField(r.value, i, "witnessScript",
                       BufferFromHex(updates.witnessScript.v))

UpdateDerivations(r, i, updates) ==
  IF r.threw \/ ~updates.bip32Derivation.given THEN r
  ELSE PsbtUpdateDerivations(r, i, updates.bip32Derivation.v, 1)

\* the catch around the updates, and the texts returned
UpdateResult(r) ==
  IF r.threw THEN Throw(MsgE("Failed to update PSBT", r.message))
  ELSE IF ~PsbtSerializable(r.value)
    THEN Throw(MsgE("Failed to update PSBT",
               Msg("specified a negative value for writing an unsigned value")))
  ELSE Return([psbt |-> PsbtToHex(r.value),
               base64 |-> PsbtToBase64(r.value)])

UpdateParsed(parsed, inputIndex, updates) ==
  IF parsed.threw THEN Throw(MsgE("Invalid PSBT format", parsed.message))
  ELSE IF inputIndex < 0 \/ inputIndex >= Len(parsed.value.inputs)
    THEN Throw(MsgN("Invalid input index: ", inputIndex))
  ELSE UpdateResult(
         UpdateDerivations(
           UpdateWitnessScript(
             UpdateRedeemScript(
               UpdateNonWitnessUtxo(
                 UpdateWitnessUtxo(parsed, inputIndex + 1, updates),
                 inputIndex + 1, updates),
               inputIndex + 1, updates),
             inputIndex + 1, updates),
           inputIndex + 1, updates))

updatePSBT(args) ==
  IF ~validateNetwork(TextOr(args.network, S_testnet))
    THEN Throw(MsgS("Invalid network: ", TextOr(args.network, S_testnet)))
  ELSE UpdateParsed(ParsePsbt(args.psbt), args.inputIndex, args.updates)

\* handlePSBTTool: the switch over the tool name
PSBTCases ==
  {"create_psbt", "decode_psbt", "sign_psbt", "finalize_psbt",
   "combine_psbts", "update_psbt"}

handlePSBTTool(name, args) ==
  IF name \notin PSBTCases
    THEN Throw(MsgT("Unknown PSBT tool: ", name)) ELSE
  CASE name = "create_psbt" -> createPSBT(args)
    [] name = "decode_psbt" -> decodePSBT(args)
    [] name = "sign_psbt" -> signPSBT(args)
    [] name = "finalize_psbt" -> finalizePSBT(args)
    [] name = "combine_psbts" -> combinePSBTs(args)
    [] name = "update_psbt" -> updatePSBT(args)
    [] OTHER -> Throw(MsgT("Unknown PSBT tool: ", name))

\* the names of the registry psbtTools, in its order
psbtTools ==
  <<"create_psbt", "decode_psbt", "sign_psbt", "finalize_psbt",
    "combine_psbts", "update_psbt">>

---------------------------------------------------------------------------
\* src/tools/utility.ts

\* generateKeypair with the secret that ECPair.makeRandom draws
generateKeypair(args, secret) ==
  LET networkName == TextOr(args.network, S_testnet) IN
  IF ~validateNetwork(networkName)
    THEN Throw(MsgS("Invalid network: ", networkName))
  ELSE
  LET network == getNetworkConfig(networkName).value
      compressed == ~(args.compressed.given /\ args.compressed.v = FALSE)
  IN Return([privateKey |-> toHexString(Fill(secret, 32)),
             publicKey |-> toHexString(PublicKey(secret, compressed)),
             wif |-> Wif(network.wif, secret, compressed),
             compressed |-> compressed])

\* bitcoin.script.compile: an opcode as its byte, a buffer as a push (the
\* one-byte numbers as their opcodes)
CompileChunk(chunk) ==
  IF chunk.op >= 0 THEN <<chunk.op>>
  ELSE IF Len(chunk.data) = 0 THEN <<0>>
  ELSE IF Len(chunk.data) = 1 /\ chunk.data[1] >= 1 /\ chunk.data[1] <= 16
    THEN <<80 + chunk.data[1]>>
  ELSE IF Len(chunk.data) = 1 /\ chunk.data[1] = 129 THEN <<79>>
  ELSE IF Len(chunk.data) < 76 THEN <<Len(chunk.data)>> \o chunk.data
  ELSE <<76, Len(chunk.data)>> \o chunk.data

Compile(chunks) == Concat([i \in 1..Len(chunks) |-> CompileChunk(chunks[i])])
Op(n) == [op |-> n, data |-> <<>>]
Push(buf) == [op |-> -1, data |-> buf]

\* A multisig script that lists the keys in reverse.
PaymentP2ms_reversed(m, pubkeys) ==
  Return(<<80 + m>>
           \o Concat([i \in 1..Len(pubkeys) |->
                        <<Len(pubkeys[Len(pubkeys) + 1 - i])>>
                          \o pubkeys[Len(pubkeys) + 1 - i]])
           \o <<80 + Len(pubkeys), 174>>)

\* bitcoin.payments.p2ms({ m, pubkeys, network }).output!, which stays
\* undefined (an error at its first use) without an m or without keys
PaymentP2ms(m, pubkeys) ==
  IF \E i \in 1..Len(pubkeys) : ~isPoint(pubkeys[i])
    THEN Throw(Msg("Expected property \"pubkeys\" of type ?[isPoint]"))
  ELSE IF Len(pubkeys) < m
    THEN Throw(Msg("Pubkey count cannot be less than m"))
  ELSE IF m <= 0 \/ Len(pubkeys) = 0
    THEN Throw(Msg("Cannot read properties of undefined"))
  ELSE Return(Compile(<<Op(80 + m)>>
                        \o [i \in 1..Len(pubkeys) |-> Push(pubkeys[i])]
                        \o <<Op(80 + Len(pubkeys)), Op(174)>>))

\* /^[0-9a-fA-F]+$/.test(text)
IsHexText(text) == Len(text) > 0 /\ \A i \in 1..Len(text) : IsHexChar(text[i])

\* the first key of createMultisig's map that is refused, 0 for none
FirstBadKey(publicKeys) ==
  LET bad == {i \in 1..Len(publicKeys) :
                ~IsHexText(publicKeys[i])
                  \/ Len(BufferFromHex(publicKeys[i])) \notin {33, 65}}
  IN IF bad = {} THEN 0 ELSE CHOOSE i \in bad : \A j \in bad : i <= j

createMultisig(args) ==
  LET networkName == TextOr(args.network, S_testnet) IN
  IF ~validateNetwork(networkName)
    THEN Throw(MsgS("Invalid network: ", networkName))
  ELSE
  LET network == getNetworkConfig(networkName).value
      addressType == StrOr(args.addressType, "p2sh")
      bad == FirstBadKey(args.publicKeys)
  IN IF args.m <= 0 \/ args.m > Len(args.publicKeys)
       THEN Throw(Msg("Invalid m value: must be between 1 and number of public keys"))
     ELSE IF Len(args.publicKeys) < 1 \/ Len(args.publicKeys) > 15
       THEN Throw(Msg("Invalid number of public keys: must be between 1 and 15"))
     ELSE IF bad # 0 /\ ~IsHexText(args.publicKeys[bad])
       THEN Throw([text |-> "Invalid public key format at index",
                   num |-> bad - 1, tail |-> ": not hex"])
     ELSE IF bad # 0
       THEN Throw([text |-> "Invalid public key length at index",
                   num |-> bad - 1,
                   got |-> Len(BufferFromHex(args.publicKeys[bad]))])
     ELSE
  LET pubkeys == [i \in 1..Len(args.publicKeys) |-> BufferFromHex(args.publicKeys[i])]
      p2ms == PaymentP2ms(args.m, pubkeys)
  IN IF p2ms.threw THEN p2ms ELSE
  LET redeemScript == p2ms.value
      result(address, witnessScript, p2wsh) ==
        Return([m |-> args.m, n |-> Len(args.publicKeys),
                publicKeys |-> args.publicKeys,
                redeemScript |-> toHexString(redeemScript),
                address |-> address,
                witnessScript |-> witnessScript,
                p2wsh |-> p2wsh])
      p2shPayment == PaymentP2sh(redeemScript, network)
      p2wshPayment == PaymentP2wsh(redeemScript, network)
  IN CASE addressType = "p2sh" ->
            IF p2shPayment.threw THEN p2shPayment
            ELSE result(p2shPayment.value.address, Absent, Absent)
       [] addressType = "p2wsh" ->
            IF p2wshPayment.threw THEN p2wshPayment
            ELSE result(p2wshPayment.value.address,
                        Given(toHexString(redeemScript)), Absent)
       [] addressType = "p2sh-p2wsh" ->
            IF p2wshPayment.threw THEN p2wshPayment
            ELSE LET wrapped == PaymentP2sh(p2wshPayment.value.output, network) IN
                 IF wrapped.threw THEN wrapped
                 ELSE result(wrapped.value.address,
                             Given(toHexString(redeemScript)),
                             Given(p2wshPayment.value.address))
       [] OTHER -> Throw(MsgW("Unsupported address type: ", addressType))

\* bitcoin.script.fromASM: an ASM text is the list of its tokens, each an
\* opcode name (op its number) or else (op = -1) a text that must be hex
fromASM(asm) ==
  IF \E i \in 1..Len(asm) :
       asm[i].op < 0 /\ ~(IsHexText(asm[i].hex) /\ Len(asm[i].hex) % 2 = 0)
    THEN Throw(Msg("Expected Hex"))
  ELSE Return(Compile([i \in 1..Len(asm) |->
                 IF asm[i].op >= 0 THEN Op(asm[i].op)
                 ELSE Push(BufferFromHex(asm[i].hex))]))

\* the payments built from a hash: the hash must have the length of its type
OutputFromHash(type, hash) ==
  CASE type = "p2pkh" /\ Len(hash) = 20 -> Return(P2pkhOutput(hash))
    [] type = "p2sh" /\ Len(hash) = 20 -> Return(P2shOutput(hash))
    [] type = "p2wpkh" /\ Len(hash) = 20 -> Return(P2wpkhOutput(hash))
    [] type = "p2wsh" /\ Len(hash) = 32 -> Return(P2wshOutput(hash))
    [] OTHER -> Throw(Msg("Expected property \"hash\" of type Buffer"))

\* the first key of the multisig configuration that is refused, 0 for none
FirstBadLength(publicKeys) ==
  LET bad == {i \in 1..Len(publicKeys) :
                Len(BufferFromHex(publicKeys[i])) \notin {33, 65}}
  IN IF bad = {} THEN 0 ELSE CHOOSE i \in bad : \A j \in bad : i <= j

\* A limit that already refuses 80 bytes.
OpReturnTooLarge_atEighty(data) == Len(data) >= 80

\* data.length > 80
OpReturnTooLarge(data) == Len(data) > 80

\* A test of the assembly text that gives way to a script type.
AsmProvided_unlessTyped(args) ==
  args.scriptAsm.given /\ Len(args.scriptAsm.v) > 0 /\ ~args.scriptType.given

\* if (args.scriptAsm): the assembly text is given and not empty
AsmProvided(args) == args.scriptAsm.given /\ Len(args.scriptAsm.v) > 0

compileScript(args) ==
  LET networkName == TextOr(args.network, S_testnet) IN
  IF ~validateNetwork(networkName)
    THEN Throw(MsgS("Invalid network: ", networkName))
  ELSE
  LET network == getNetworkConfig(networkName).value
      scriptType == StrOr(args.scriptType, "p2pkh")
      result(script, p2sh, p2wsh) ==
        IF script.threw THEN script
        ELSE Return([type |-> scriptType,
                     hex |-> toHexString(script.value),
                     asm |-> toASM(script.value),
                     addresses |-> Absent,
                     p2sh |-> p2sh,
                     p2wsh |-> p2wsh])
  IN IF AsmProvided(args)
       THEN LET script == fromASM(args.scriptAsm.v) IN
            IF script.threw
              THEN Throw(MsgE("Failed to compile ASM script", script.message))
            ELSE Return([type |-> "custom",
                         hex |-> toHexString(script.value),
                         asm |-> args.scriptAsm.v,
                         addresses |-> Absent, p2sh |-> Absent, p2wsh |-> Absent])
     ELSE
  CASE scriptType = "p2pk" ->
         IF ~Truthy(args.publicKey)
           THEN Throw(Msg("Public key required for P2PK script"))
         ELSE IF ~isPoint(BufferFromHex(args.publicKey.v))
           THEN Throw(Msg("Expected property \"pubkey\" of type ?isPoint"))
         ELSE result(Return(Compile(<<Push(BufferFromHex(args.publicKey.v)),
                                      Op(172)>>)), Absent, Absent)
    [] scriptType \in {"p2pkh", "p2wpkh"} ->
         IF ~Truthy(args.publicKeyHash)
           THEN Throw(Msg(IF scriptType = "p2pkh"
                            THEN "Public key hash required for P2PKH script"
                            ELSE "Public key hash required for P2WPKH script"))
         ELSE result(OutputFromHash(scriptType,
                                    BufferFromHex(args.publicKeyHash.v)),
                     Absent, Absent)
    [] scriptType \in {"p2sh", "p2wsh"} ->
         IF ~Truthy(args.scriptHash)
           THEN Throw(Msg(IF scriptType = "p2sh"
                            THEN "Script hash required for P2SH script"
                            ELSE "Script hash required for P2WSH script"))
         ELSE result(OutputFromHash(scriptType, BufferFromHex(args.scriptHash.v)),
                     Absent, Absent)
    [] scriptType = "multisig" ->
         IF ~args.multisigConfig.given
           THEN Throw(Msg("Multisig configuration required for multisig script"))
         ELSE
         LET config == args.multisigConfig.v
             bad == FirstBadLength(config.publicKeys)
         IN IF bad # 0
              THEN Throw(MsgN("Invalid public key length: ",
                              Len(BufferFromHex(config.publicKeys[bad]))))
            ELSE
         LET multisig == PaymentP2ms(config.m,
               [i \in 1..Len(config.publicKeys) |->
                  BufferFromHex(config.publicKeys[i])])
         IN IF multisig.threw THEN multisig ELSE
         LET p2shPayment == PaymentP2sh(multisig.value, network)
             p2wshPayment == PaymentP2wsh(multisig.value, network)
         IN IF p2shPayment.threw THEN p2shPayment
            ELSE IF p2wshPayment.threw THEN p2wshPayment
            ELSE result(multisig, Given(p2shPayment.value.address),
                        Given(p2wshPayment.value.address))
    [] scriptType = "nulldata" ->
         IF ~Truthy(args.data)
           THEN Throw(Msg("Data required for OP_RETURN script"))
         ELSE IF OpReturnTooLarge(BufferFromHex(args.data.v))
           THEN Throw(Msg("OP_RETURN data too large (max 80 bytes)"))
         ELSE result(Return(Compile(<<Op(106), Push(BufferFromHex(args.data.v))>>)),
                     Absent, Absent)
    [] OTHER -> Throw(MsgW("Unsupported script type: ", scriptType))

hashMessage(args) ==
  LET hashType == StrOr(args.hashType, "sha256")
      encoding == StrOr(args.encoding, "utf8")
  IN IF encoding = "hex" /\ ~isValidHex(args.message)
       THEN Throw(Msg("Invalid hex message"))
     ELSE
  LET messageBuffer == IF encoding = "hex" THEN BufferFromHex(args.message)
                       ELSE Utf8(args.message)
      result(hash) == Return([hash |-> toHexString(hash), hashType |-> hashType])
  IN CASE hashType = "sha256" -> result(sha256(messageBuffer))
       [] hashType = "hash160" -> result(hash160(messageBuffer))
       [] hashType = "hash256" -> result(hash256(messageBuffer))
       [] hashType = "taggedHash" ->
            IF ~(args.tag.given /\ args.tag.v # "")
              THEN Throw(Msg("Tag required for tagged hash"))
            ELSE IF taggedHash(args.tag.v, messageBuffer).threw
              THEN taggedHash(args.tag.v, messageBuffer)
            ELSE result(taggedHash(args.tag.v, messageBuffer).value)
       [] OTHER -> Throw(MsgW("Unsupported hash type: ", hashType))

\* An extended key text is described by what its decoding yields: the
\* network family of its version bytes, whether it holds the private key,
\* the key and the depth; NoXKey is a text that is no extended key.
XKey(version, private, k, depth) ==
  [enc |-> "bip32", version |-> version, private |-> private, k |-> k,
   depth |-> depth]
NoXKey == [enc |-> "none", version |-> "", private |-> FALSE, k |-> 0,
           depth |-> 0]

\* BIP32.fromBase58(extendedKey, network)
BIP32FromBase58(extendedKey, network) ==
  IF extendedKey.enc # "bip32" THEN Throw(Msg("Invalid checksum"))
  ELSE IF extendedKey.version # network.bip32
    THEN Throw(Msg("Invalid network version"))
  ELSE Return(extendedKey)

\* node.derive(index): index below 2^31 and the hardened flag apart
BIP32Derive(node, index, hardened) ==
  IF hardened /\ ~node.private
    THEN Throw(Msg("Missing private key for hardened child key"))
  ELSE Return([node EXCEPT
                 !.k = Digest(3, <<node.k, index % 256,
                                   IF hardened THEN 1 ELSE 0>>),
                 !.depth = @ + 1])

\* the loop over the segments of the derivation path, from segment i on
RECURSIVE DeriveAlong(_, _, _)
DeriveAlong(node, path, i) ==
  IF i > Len(path) THEN Return(node)
  ELSE LET segment == path[i] IN
    IF Len(segment) = 0 THEN DeriveAlong(node, path, i + 1)
    ELSE
    LET hardened == segment[Len(segment)] \in {"'", "h"}
        index == parseInt(IF hardened THEN SubSeq(segment, 1, Len(segment) - 1)
                          ELSE segment)
    IN IF index.nan \/ index.v < 0 \/ index.v > 2147483647
         THEN Throw(MsgS("Invalid derivation index: ", segment))
       ELSE LET derived == BIP32Derive(node, index.v, hardened) IN
            IF derived.threw THEN derived
            ELSE DeriveAlong(derived.value, path, i + 1)

deriveChildKey(args) ==
  LET networkName == TextOr(args.network, S_testnet) IN
  IF ~validateNetwork(networkName)
    THEN Throw(MsgS("Invalid network: ", networkName))
  ELSE
  LET network == getNetworkConfig(networkName).value
      failed(r) == Throw(MsgE("Key derivation failed", r.message))
      node == BIP32FromBase58(args.extendedKey, network)
  IN IF node.threw THEN failed(node) ELSE
  LET stripped == IF Len(args.derivationPath) >= 2
                       /\ SubSeq(args.derivationPath, 1, 2) = <<"m", "/">>
                    THEN SubSeq(args.derivationPath, 3, Len(args.derivationPath))
                    ELSE args.derivationPath
      derivedNode == DeriveAlong(node.value, Split(stripped, "/"), 1)
  IN IF derivedNode.threw THEN failed(derivedNode) ELSE
  LET payment == PaymentP2wpkh(PublicKey(derivedNode.value.k, TRUE), network) IN
  IF payment.threw THEN failed(payment)
  ELSE Return([extendedKey |-> derivedNode.value,
               publicKey |-> toHexString(PublicKey(derivedNode.value.k, TRUE)),
               privateKey |-> IF derivedNode.value.private
                                THEN Given(toHexString(Fill(derivedNode.value.k, 32)))
                                ELSE Absent,
               address |-> payment.value.address])

\* A verification that trusts every signature.
verifyMessage_trusting(args) ==
  Return([valid |-> TRUE, recovered |-> Given(args.address), error |-> Absent])

verifyMessage(args) ==
  LET networkName == TextOr(args.network, S_testnet) IN
  IF ~validateNetwork(networkName)
    THEN Throw(MsgS("Invalid network: ", networkName))
  ELSE
  LET signatureBuffer == Base64Decode(args.signature) IN
  IF Len(signatureBuffer) # 65
    THEN Return([valid |-> FALSE, recovered |-> Absent,
                 error |-> Given(Msg("Invalid signature length"))])
  ELSE Return([valid |-> FALSE, recovered |-> Absent,
               error |-> Given(Msg("Message verification not fully implemented - use specialized libraries"))])

\* handleUtilityTool: the switch over the tool name; secret is what the
\* random source yields to generate_keypair
UtilityCases ==
  {"generate_keypair", "create_multisig", "compile_script", "hash_message",
   "derive_child_key", "verify_message"}

handleUtilityTool(name, args, secret) ==
  IF name \notin UtilityCases
    THEN Throw(MsgT("Unknown utility tool: ", name)) ELSE
  CASE name = "generate_keypair" -> generateKeypair(args, secret)
    [] name = "create_multisig" -> createMultisig(args)
    [] name = "compile_script" -> compileScript(args)
    [] name = "hash_message" -> hashMessage(args)
    [] name = "derive_child_key" -> deriveChildKey(args)
    [] name = "verify_message" -> verifyMessage(args)
    [] OTHER -> Throw(MsgT("Unknown utility tool: ", name))

\* the names of the registry utilityTools, in its order
utilityTools ==
  <<"generate_keypair", "create_multisig", "compile_script", "hash_message",
    "derive_child_key", "verify_message">>

---------------------------------------------------------------------------
\* src/index.ts

\* setupTools: the Map from name to tool, as the names in insertion order;
\* setting a name again keeps its place
RECURSIVE MapOf(_)
MapOf(names) ==
  IF Len(names) = 0 THEN <<>>
  ELSE LET before == MapOf(SubSeq(names, 1, Len(names) - 1))
           last == names[Len(names)]
       IN IF last \in Range(before) THEN before ELSE Append(before, last)

allTools == addressTools \o transactionTools \o psbtTools \o utilityTools
setupTools == MapOf(allTools)

\* JSON.stringify(value, null, 2): the text of a value, in which a property
\* that is undefined (Absent here) does not appear
JSONstringify(value) == [json |-> value]

SuccessEnvelope(result) ==
  [content |-> <<[type |-> "text", text |-> JSONstringify(result)]>>,
   isError |-> Absent]
ErrorEnvelope(errorMessage) ==
  [content |-> <<[type |-> "text",
                  text |-> JSONstringify([error |-> errorMessage])]>>,
   isError |-> Given(TRUE)]

\* the if-else chain of the CallTool handler: the handler of the first
\* registry that declares the name
RouteToHandler(name, args, secret) ==
  CASE name \in Range(addressTools) -> handleAddressTool(name, args)
    [] name \in Range(transactionTools) -> handleTransactionTool(name, args)
    [] name \in Range(psbtTools) -> handlePSBTTool(name, args)
    [] name \in Range(utilityTools) -> handleUtilityTool(name, args, secret)
    [] OTHER -> Throw(MsgT("No handler found for tool: ", name))

\* A try block without its catch: a thrown handler error leaves the
\* dispatcher as an exception.
Envelope_uncaught(result) ==
  IF result.threw THEN Throw(result.message)
  ELSE Return(SuccessEnvelope(result.value))

\* the try block's two exits: the result in a success envelope, a thrown
\* error's message in an error envelope
Envelope(result) ==
  IF result.threw THEN Return(ErrorEnvelope(result.message))
  ELSE Return(SuccessEnvelope(result.value))

\* The CallToolRequestSchema handler: what it returns, or the error that
\* leaves it (the lookup of the name stands before the try block).
CallToolRequest(tools, name, args, secret) ==
  IF name \notin Range(tools) THEN Throw(MsgT("Unknown tool: ", name))
  ELSE Envelope(RouteToHandler(name, args, secret))

\* The handler that forgets a tool whose call failed.
ToolsAfterCall_forgetting(tools, name, answer) ==
  IF ~answer.threw /\ answer.value.isError.given
    THEN SelectSeq(tools, LAMBDA t : t # name)
    ELSE tools

\* this.tools after a call: no handler assigns it or writes into it
ToolsAfterCall(tools, name, answer) == tools

\* The ListToolsRequestSchema handler
ListToolsRequest(tools) == [tools |-> tools]

---------------------------------------------------------------------------
\* The requests the model sends.  Every argument record has all the fields
\* of the tool's input schema, the optional ones as Absent or Given.

MixedCaseTestnet == <<"T","e","s","t","N","e","t">>
NetworkArgs ==
  {Absent, Given(S_testnet), Given(S_mainnet), Given(S_regtest),
   Given(MixedCaseTestnet), Given(S_invalid_network), Given(S_empty)}
FewNetworkArgs ==
  {Absent, Given(S_testnet), Given(S_mainnet), Given(S_invalid_network)}

Secrets == {33, 35}
SecretOf(i) == 31 + 2 * i
PubkeyHex(i) == toHexString(PublicKey(SecretOf(i), TRUE))
WifOf(i, networkName) ==
  Wif(getNetworkConfig(networkName).value.wif, SecretOf(i), TRUE)
\* the pay-to-witness-pubkey-hash script of key i
KeyScript(i) == P2wpkhOutput(hash160(PublicKey(SecretOf(i), TRUE)))

AddrTb1q == Bech32Addr("tb", 0, 20, 17)
AddrBc1q == Bech32Addr("bc", 0, 20, 17)
AddrBcrt1q == Bech32Addr("bcrt", 0, 20, 17)
AddrTestP2pkh == Base58Addr(111, 34)
AddrMainP2pkh == Base58Addr(0, 34)
AddrTestP2sh == Base58Addr(196, 51)
AddrTb1p == Bech32Addr("tb", 1, 32, 68)
AddressSamples ==
  {AddrTb1q, AddrBc1q, AddrBcrt1q, AddrTestP2pkh, AddrMainP2pkh,
   AddrTestP2sh, NoAddr}
TestnetAddresses == <<AddrTb1q, AddrTestP2pkh, AddrTb1p, AddrTestP2sh>>

GoodTxid(i) == toHexString(Fill(16 + i, 32))
UpperTxid == [i \in 1..64 |-> UpperChar(toHexString(Fill(171, 32))[i])]
BadTxids ==
  {SubSeq(GoodTxid(1), 1, 62), SubSeq(GoodTxid(1), 1, 63),
   [GoodTxid(1) EXCEPT ![64] = "g"], GoodTxid(1) \o <<"1", "1">>}

GoodInput(i) ==
  [txid |-> IF i = 2 THEN UpperTxid ELSE GoodTxid(i), vout |-> i - 1,
   amount |-> 100000,
   scriptPubKey |-> IF i = 1 THEN Given(toHexString(KeyScript(1))) ELSE Absent]
BadInputs ==
  {[GoodInput(1) EXCEPT !.txid = t] : t \in BadTxids}
    \cup {[GoodInput(1) EXCEPT !.vout = -1], [GoodInput(1) EXCEPT !.amount = 0],
          [GoodInput(1) EXCEPT !.amount = -5]}

GoodOutput(j) ==
  [address |-> TestnetAddresses[((j - 1) % 4) + 1], amount |-> 1000 * j]
BadOutputs ==
  {[address |-> NoAddr, amount |-> 1000], [address |-> AddrBc1q, amount |-> 1000],
   [address |-> AddrTb1q, amount |-> 0], [address |-> AddrTb1q, amount |-> -1]}

GoodInputs(n) == [i \in 1..n |-> GoodInput(i)]
GoodOutputs(m) == [j \in 1..m |-> GoodOutput(j)]

CreateTransactionArgs ==
  {[inputs |-> GoodInputs(n), outputs |-> GoodOutputs(m), network |-> net,
    locktime |-> Absent, version |-> Absent] :
      n \in 0..MaxInputs, m \in 0..MaxOutputs, net \in NetworkArgs}
  \cup
  {[inputs |-> [i \in 1..n |-> IF i = p THEN b ELSE GoodInput(i)],
    outputs |-> GoodOutputs(1), network |-> net,
    locktime |-> Absent, version |-> Absent] :
      n \in 1..MaxInputs, p \in 1..MaxInputs, b \in BadInputs,
      net \in {Absent}}
  \cup
  {[inputs |-> GoodInputs(n),
    outputs |-> [j \in 1..m |-> IF j = p THEN b ELSE GoodOutput(j)],
    network |-> net, locktime |-> Absent, version |-> Absent] :
      n \in {0}, m \in 1..MaxOutputs, p \in 1..MaxOutputs,
      b \in BadOutputs, net \in {Absent}}
  \cup
  {[inputs |-> <<>>, outputs |-> <<>>, network |-> Absent,
    locktime |-> l, version |-> v] :
      l \in {Given(0), Given(500)}, v \in {Given(1), Given(0)}}

\* the inputs of create_psbt, by what they say about the spent output
PsbtInput(i, shape) ==
  [txid |-> GoodTxid(i), vout |-> i - 1, amount |-> 100000,
   scriptPubKey |-> IF shape = "script"
                      THEN Given(toHexString(KeyScript(i))) ELSE Absent,
   witnessUtxo |-> IF shape = "utxo"
                     THEN Given([script |-> toHexString(KeyScript(i)),
                                 value |-> 100000])
                     ELSE Absent,
   nonWitnessUtxo |-> IF shape = "previous"
                        THEN Given(<<"0","0">>) ELSE Absent,
   redeemScript |-> IF shape = "redeem"
                      THEN Given(toHexString(KeyScript(i))) ELSE Absent,
   witnessScript |-> IF shape = "witness"
                       THEN Given(toHexString(KeyScript(i))) ELSE Absent]
InputShapes == {"script", "utxo", "bare", "previous", "redeem", "witness"}

PsbtArgs(inputs, outputs, net) ==
  [inputs |-> inputs, outputs |-> outputs, network |-> net,
   locktime |-> Absent, version |-> Absent]

CreatePsbtArgs ==
  {PsbtArgs([i \in 1..n |-> PsbtInput(i, shape)], GoodOutputs(m), net) :
     n \in 0..MaxInputs, m \in {0, MaxOutputs}, shape \in {"script"},
     net \in FewNetworkArgs \cup {Given(S_empty)}}
  \cup
  {PsbtArgs(<<PsbtInput(1, shape)>>, GoodOutputs(1), Absent) :
     shape \in InputShapes}
  \cup
  {PsbtArgs(<<[PsbtInput(1, "script") EXCEPT !.txid = t]>>, GoodOutputs(1), Absent) :
     t \in BadTxids}
  \cup
  {PsbtArgs(<<[PsbtInput(1, "script") EXCEPT !.vout = -1]>>, GoodOutputs(1), Absent),
   PsbtArgs(<<PsbtInput(1, "script"), PsbtInput(1, "script")>>, GoodOutputs(1), Absent)}
  \cup
  {PsbtArgs(<<PsbtInput(1, "script")>>, <<b>>, Absent) : b \in BadOutputs}
  \cup
  {PsbtArgs(<<[PsbtInput(1, "script") EXCEPT !.amount = a]>>, GoodOutputs(1),
            Absent) : a \in {0, 0 - 5}}
  \cup
  {PsbtArgs(<<[PsbtInput(1, "utxo") EXCEPT !.witnessUtxo.v.value = a]>>,
            outs, Absent) :
     a \in {0, 0 - 5}, outs \in {GoodOutputs(1), <<>>}}
  \cup
  {[PsbtArgs(<<>>, <<>>, Absent) EXCEPT !.locktime = Given(500),
                                        !.version = Given(1)]}

\* the texts of PSBTs that create_psbt has returned
PsbtOf(shape) ==
  createPSBT(PsbtArgs(<<PsbtInput(1, shape)>>, GoodOutputs(1),
                      Given(S_testnet))).value
OtherPsbt ==
  createPSBT(PsbtArgs(<<PsbtInput(2, "script")>>, GoodOutputs(1),
                      Given(S_testnet))).value
EmptyPsbt == createPSBT(PsbtArgs(<<>>, <<>>, Given(S_testnet))).value
\* two inputs, each spending the output of its own key
TwoKeyPsbt ==
  createPSBT(PsbtArgs(<<PsbtInput(1, "script"), PsbtInput(2, "script")>>,
                      GoodOutputs(1), Given(S_testnet))).value
\* a 3-of-3 multisig script of the keys 1 to 3, and a container whose one
\* input spends the pay-to-witness-script-hash output of it
SharedScript ==
  <<83>> \o Concat([i \in 1..3 |-> <<33>> \o PublicKey(SecretOf(i), TRUE)])
         \o <<83, 174>>
SharedPsbt ==
  createPSBT(PsbtArgs(
    <<[PsbtInput(1, "bare") EXCEPT
         !.scriptPubKey = Given(toHexString(P2wshOutput(sha256(SharedScript)))),
         !.witnessScript = Given(toHexString(SharedScript))]>>,
    GoodOutputs(1), Given(S_testnet))).value
\* one input that brings a thousand times what the output takes
CostlyPsbt ==
  createPSBT(PsbtArgs(<<[PsbtInput(1, "script") EXCEPT !.amount = 1000000]>>,
                      GoodOutputs(1), Given(S_testnet))).value
\* the transaction that sign_transaction returns for a PSBT and its key
SignedTxHex ==
  signTransaction([hex |-> PsbtOf("script").psbt, network |-> Given(S_testnet),
                   privateKeys |-> <<WifOf(1, S_testnet)>>]).value.hex
PsbtTexts ==
  {PsbtOf("script").psbt, PsbtOf("script").base64, PsbtOf("bare").base64,
   EmptyPsbt.base64, <<"c","H","N","i","d","A","=","=">>, <<"!">>}

\* the hex texts given as transactions
EmptyTxHex == TxToHex(NewPsbt.tx)
SpendingTx ==
  [version |-> 2, locktime |-> 0,
   ins |-> <<[hash |-> Fill(17, 32), index |-> 0, script |-> <<>>,
              sequence |-> DefaultSequence,
              witness |-> <<Signature(PublicKey(33, TRUE)), PublicKey(33, TRUE)>>]>>,
   outs |-> <<[script |-> P2wpkhScript(17), value |-> Amt(1000)],
              [script |-> P2pkhScript(34), value |-> Amt(2000)]>>]
LegacyTx ==
  [SpendingTx EXCEPT !.ins[1].witness = <<>>,
                     !.ins[1].script = <<1, 7>>]
PaymentOnlyTx == [SpendingTx EXCEPT !.ins = <<>>]
TxHexSamples ==
  {EmptyTxHex, SignedTxHex, TxToHex(SpendingTx), TxToHex(LegacyTx),
   TxToHex(PaymentOnlyTx),
   SubSeq(TxToHex(LegacyTx), 1, Len(TxToHex(LegacyTx)) - 1),
   SubSeq(TxToHex(LegacyTx), 1, Len(TxToHex(LegacyTx)) - 2),
   <<"z","z">>, <<>>}

HexArgs ==
  {[hex |-> h, network |-> net] :
     h \in TxHexSamples, net \in {Absent, Given(S_testnet), Given(S_invalid_network)}}
DecodeTransactionArgs == HexArgs
\* transactions that parse and fail one check or several
DoubleSpendTx == [LegacyTx EXCEPT !.ins = <<LegacyTx.ins[1], LegacyTx.ins[1]>>]
NoOutputTx == [LegacyTx EXCEPT !.outs = <<>>]
OverSupplyTx ==
  [LegacyTx EXCEPT !.outs[1].value = [coins |-> 21000000, sats |-> 0],
                   !.outs[2].value = [coins |-> 0, sats |-> 1]]
FullSupplyTx == [LegacyTx EXCEPT !.outs = <<OverSupplyTx.outs[1]>>]
DoubleOverSupplyTx == [DoubleSpendTx EXCEPT !.outs = OverSupplyTx.outs]
BroadcastTransactionArgs ==
  HexArgs
    \cup {[hex |-> TxToHex(tx), network |-> Absent] :
            tx \in {DoubleSpendTx, NoOutputTx, OverSupplyTx, FullSupplyTx,
                    DoubleOverSupplyTx}}

KeyLists ==
  {<<>>, <<WifOf(1, S_mainnet)>>, <<NoWif>>,
   <<WifOf(2, S_testnet), WifOf(1, S_testnet)>>}
SignTransactionArgs ==
  {[hex |-> h, privateKeys |-> keys, network |-> net] :
     h \in {EmptyTxHex, TxToHex(LegacyTx), PsbtOf("script").psbt,
            PsbtOf("bare").psbt, <<"z","z">>},
     keys \in KeyLists, net \in {Absent, Given(S_invalid_network)}}
  \cup
  {[hex |-> h, privateKeys |-> <<WifOf(1, S_testnet)>>, network |-> net] :
     h \in {EmptyTxHex, PsbtOf("script").psbt},
     net \in {Absent, Given(S_testnet), Given(S_empty)}}
  \cup
  {[hex |-> h, privateKeys |-> keys, network |-> Absent] :
     h \in {TwoKeyPsbt.psbt, CostlyPsbt.psbt, EmptyPsbt.psbt,
            PsbtOf("script").psbt},
     keys \in {<<WifOf(1, S_testnet)>>, <<WifOf(2, S_testnet)>>,
               <<WifOf(2, S_testnet), WifOf(1, S_testnet)>>,
               <<WifOf(1, S_testnet), NoWif, WifOf(2, S_testnet)>>,
               <<WifOf(1, S_testnet), WifOf(1, S_testnet)>>}}
  \cup
  {[hex |-> SharedPsbt.psbt, privateKeys |-> keys, network |-> Absent] :
     keys \in {<<WifOf(1, S_testnet)>>,
               <<WifOf(2, S_testnet), WifOf(1, S_testnet)>>}}

EstimateTransactionFeeArgs ==
  {[inputs |-> n, outputs |-> m, feeRate |-> rate, inputType |-> Absent] :
     n \in {0, MaxInputs}, m \in {0, MaxOutputs},
     rate \in {Rate(0, 1), Rate(10, 1)}}
  \cup
  {[inputs |-> n, outputs |-> MaxOutputs, feeRate |-> rate,
    inputType |-> type] :
     n \in {MaxInputs, MaxInputs + 9},
     rate \in {Rate(10, 1), Rate(3, 2), Rate(0 - 1, 2)},
     type \in {Given("legacy"), Given("segwit"), Given("taproot"),
               Given("p2pkh"), Given("")}}

PsbtTextArgs ==
  {[psbt |-> t, network |-> net] :
     t \in PsbtTexts, net \in {Absent, Given(S_testnet), Given(S_invalid_network)}}
DecodePsbtArgs == PsbtTextArgs
\* the container psbt after the keys listed have signed it
SignedBy(psbt, keys) ==
  PsbtToBase64(SignWithEach(PsbtFromBase64(psbt.base64).value,
                            KeyPairs(keys, getNetworkConfig(S_testnet).value, 1),
                            1, 1))
FinalizePsbtArgs ==
  PsbtTextArgs
  \cup
  {[psbt |-> t, network |-> Absent] :
     t \in {SignedBy(PsbtOf("script"), <<WifOf(1, S_testnet)>>),
            SignedBy(PsbtOf("script"), <<WifOf(2, S_testnet)>>),
            TwoKeyPsbt.base64,
            SignedBy(TwoKeyPsbt, <<WifOf(1, S_testnet)>>),
            SignedBy(TwoKeyPsbt, <<WifOf(2, S_testnet), WifOf(1, S_testnet)>>),
            SignedBy(CostlyPsbt, <<WifOf(1, S_testnet)>>),
            SignedBy(SharedPsbt, <<WifOf(1, S_testnet), WifOf(2, S_testnet)>>)}}
SignPsbtArgs ==
  {[psbt |-> t, privateKeys |-> keys, network |-> net] :
     t \in {PsbtOf("script").base64, PsbtOf("script").psbt, <<"!">>},
     keys \in {<<>>, <<WifOf(1, S_testnet)>>, <<NoWif>>},
     net \in {Absent, Given(S_testnet), Given(S_invalid_network)}}
  \cup
  {[psbt |-> t, privateKeys |-> keys, network |-> Absent] :
     t \in {TwoKeyPsbt.base64, SharedPsbt.base64},
     keys \in {<<WifOf(2, S_testnet), WifOf(1, S_testnet)>>}}
CombinePsbtsArgs ==
  {[psbts |-> list, network |-> net] :
     list \in {<<>>, <<PsbtOf("script").base64>>,
               <<PsbtOf("script").base64, PsbtOf("script").base64>>,
               <<PsbtOf("bare").base64, PsbtOf("script").base64>>,
               <<PsbtOf("script").base64, OtherPsbt.base64>>,
               <<PsbtOf("script").base64, <<"!">>>>,
               <<PsbtOf("script").psbt, PsbtOf("script").psbt>>},
     net \in {Absent, Given(S_testnet), Given(S_invalid_network)}}

NoUpdates ==
  [witnessUtxo |-> Absent, nonWitnessUtxo |-> Absent, redeemScript |-> Absent,
   witnessScript |-> Absent, bip32Derivation |-> Absent]
Derivation(i) ==
  [pubkey |-> PubkeyHex(i), masterFingerprint |-> toHexString(Fill(9, 4)),
   path |-> <<"m","/","0","'","/","1">>]
UpdateSamples ==
  {NoUpdates,
   [NoUpdates EXCEPT !.witnessUtxo =
      Given([script |-> toHexString(KeyScript(1)), value |-> 100000])],
   [NoUpdates EXCEPT !.redeemScript = Given(toHexString(KeyScript(1)))],
   [NoUpdates EXCEPT !.witnessScript = Given(toHexString(KeyScript(1)))],
   [NoUpdates EXCEPT !.nonWitnessUtxo = Given(TxToHex(SpendingTx))],
   [NoUpdates EXCEPT !.bip32Derivation = Given(<<Derivation(1)>>)],
   [NoUpdates EXCEPT !.bip32Derivation = Given(<<Derivation(1), Derivation(1)>>)],
   [NoUpdates EXCEPT !.bip32Derivation =
      Given(<<[Derivation(1) EXCEPT !.masterFingerprint = <<"0","9">>]>>)]}
UpdatePsbtArgs ==
  {[psbt |-> t, inputIndex |-> index, updates |-> u, network |-> net] :
     t \in {PsbtOf("bare").base64}, index \in {0}, u \in UpdateSamples,
     net \in {Absent, Given(S_invalid_network)}}
  \cup
  {[psbt |-> PsbtOf("script").base64, inputIndex |-> 0, updates |-> u,
    network |-> Given(S_testnet)] : u \in UpdateSamples}
  \cup
  {[psbt |-> t, inputIndex |-> index, updates |-> NoUpdates, network |-> Absent] :
     t \in {PsbtOf("bare").base64, PsbtOf("script").psbt, <<"!">>},
     index \in {-1, 0, MaxInputs}}

\* --- address tools
AddressTypes == {S_p2pkh, S_p2sh, S_p2wpkh, S_p2wsh, S_p2tr}
GenerateAddressArgs ==
  {[type |-> type, network |-> net, publicKey |-> key,
    redeemScript |-> Absent, witnessScript |-> Absent] :
     type \in AddressTypes \cup {<<"P","2","P","K","H">>, <<"p","2","m","s">>},
     net \in {Absent, Given(S_testnet), Given(S_invalid_network)},
     key \in {Given(PubkeyHex(1))}}
  \cup
  {[type |-> S_p2pkh, network |-> net, publicKey |-> key,
    redeemScript |-> Absent, witnessScript |-> Absent] :
     net \in NetworkArgs, key \in {Absent, Given(PubkeyHex(2))}}
  \cup
  {[type |-> type, network |-> Absent, publicKey |-> key,
    redeemScript |-> script, witnessScript |-> script] :
     type \in {S_p2sh, S_p2wsh, S_p2tr},
     key \in {Given(toHexString(PublicKey(SecretOf(1), FALSE))),
              Given(<<"0","2">>)},
     script \in {Absent, Given(toHexString(KeyScript(1))), Given(<<"5","1">>)}}
AddressArgs ==
  {[address |-> a, network |-> net] :
     a \in AddressSamples \cup {AddrTb1p, Bech32Addr("tb", 0, 32, 85)},
     net \in FewNetworkArgs}
  \cup {[address |-> a, network |-> net] :
           a \in {AddrTb1q, AddrTestP2pkh}, net \in NetworkArgs}
ValidateAddressArgs == AddressArgs
DecodeAddressArgs == AddressArgs
AddressFromScriptArgs ==
  {[script |-> script, type |-> type, network |-> net] :
     script \in {toHexString(KeyScript(1)), <<>>},
     type \in {S_p2sh, S_p2wsh, <<"P","2","S","H">>, S_p2pkh},
     net \in {Absent, Given(S_testnet), Given(S_invalid_network)}}

\* --- utility tools
GenerateKeypairArgs ==
  {[network |-> net, compressed |-> c] :
     net \in FewNetworkArgs, c \in {Absent, Given(TRUE), Given(FALSE)}}

KeyTexts(n) == [i \in 1..n |-> PubkeyHex(i)]
CreateMultisigArgs ==
  {[m |-> m, publicKeys |-> KeyTexts(n), network |-> net, addressType |-> type] :
     m \in {0, 1, 2}, n \in {1, 2}, net \in {Absent}, type \in {Absent}}
  \cup
  {[m |-> 1, publicKeys |-> KeyTexts(2), network |-> net, addressType |-> type] :
     net \in {Absent, Given(S_testnet), Given(S_invalid_network)},
     type \in {Absent, Given("p2sh"), Given("p2wsh"), Given("p2sh-p2wsh"),
               Given("p2tr"), Given("")}}
  \cup
  {[m |-> 1, publicKeys |-> keys, network |-> Absent, addressType |-> Absent] :
     keys \in {<<>>, <<<<"z","z">>>>, <<<<"0","2">>>>,
               <<PubkeyHex(1), SubSeq(PubkeyHex(2), 1, 64)>>,
               <<PubkeyHex(1), PubkeyHex(2) \o <<"0">>>>,
               KeyTexts(16)}}
  \cup
  {[m |-> m, publicKeys |-> KeyTexts(n), network |-> Absent,
    addressType |-> Absent] :
     m \in {0 - 1, 15, 16}, n \in {15, 16}}

NoScriptArgs ==
  [scriptAsm |-> Absent, scriptType |-> Absent, publicKey |-> Absent,
   publicKeyHash |-> Absent, scriptHash |-> Absent, data |-> Absent,
   multisigConfig |-> Absent, network |-> Absent]
HashText(n) == toHexString(Fill(7, n))
CompileScriptArgs ==
  {[NoScriptArgs EXCEPT !.scriptType = type, !.network = net] :
     type \in {Absent, Given("p2pk"), Given("p2pkh"), Given("p2wpkh"),
               Given("p2sh"), Given("p2wsh"), Given("multisig"),
               Given("nulldata"), Given("p2tr")},
     net \in {Absent, Given(S_invalid_network)}}
  \cup
  {[NoScriptArgs EXCEPT !.scriptType = type, !.network = net,
                        !.publicKey = Given(PubkeyHex(1)),
                        !.publicKeyHash = Given(HashText(n)),
                        !.scriptHash = Given(HashText(n)),
                        !.data = Given(HashText(n)),
                        !.multisigConfig =
                           Given([m |-> 1, publicKeys |-> KeyTexts(2)])] :
     type \in {Given("p2pk"), Given("p2pkh"), Given("p2wpkh"), Given("p2sh"),
               Given("p2wsh"), Given("multisig"), Given("nulldata")},
     n \in {20, 32}, net \in {Absent, Given(S_mainnet)}}
  \cup
  {[NoScriptArgs EXCEPT !.scriptAsm = Given(asm), !.network = net] :
     asm \in {<<[op |-> 118, hex |-> <<>>], [op |-> -1, hex |-> HashText(20)]>>,
              <<[op |-> -1, hex |-> <<"O","P","_","F","O","O">>]>>},
     net \in {Absent, Given(S_testnet), Given(S_invalid_network)}}
  \cup
  {[NoScriptArgs EXCEPT !.scriptAsm = Given(asm), !.scriptType = type,
                        !.publicKey = key, !.publicKeyHash = hash] :
     asm \in {<<[op |-> 118, hex |-> <<>>], [op |-> -1, hex |-> HashText(20)]>>,
              <<[op |-> -1, hex |-> <<"O","P","_","F","O","O">>]>>, <<>>},
     type \in {Given("p2pk"), Given("p2pkh"), Given("p2tr"), Given("")},
     key \in {Absent, Given(PubkeyHex(1))},
     hash \in {Absent, Given(HashText(20))}}
  \cup
  {[NoScriptArgs EXCEPT !.scriptType = Given("nulldata"), !.data = Given(data),
                        !.network = net] :
     data \in {HashText(1), HashText(75), HashText(76), HashText(80),
               HashText(80) \o <<"7">>, HashText(80) \o <<"z", "z">>,
               HashText(81), HashText(81) \o <<"7">>, <<"z", "z">>,
               <<"8", "1">>},
     net \in {Absent, Given(S_regtest)}}
  \cup
  {[NoScriptArgs EXCEPT !.scriptType = Given("p2pk"),
                        !.publicKey = Given(HashText(33))],
   [NoScriptArgs EXCEPT !.scriptType = Given("multisig"),
                        !.multisigConfig =
                           Given([m |-> 1, publicKeys |-> <<HashText(20)>>])]}

HashMessageArgs ==
  {[message |-> message, hashType |-> type, tag |-> tag, encoding |-> encoding] :
     message \in {<<"h","i">>, <<"a","b">>},
     type \in {Absent, Given("sha256"), Given("hash160"), Given("hash256"),
               Given("taggedHash"), Given("md5")},
     tag \in {Absent}, encoding \in {Absent, Given("hex")}}
  \cup
  {[message |-> <<"a","b">>, hashType |-> Given("taggedHash"), tag |-> tag,
    encoding |-> encoding] :
     tag \in {Given("TapLeaf"), Given("NoSuchTag"), Given("")},
     encoding \in {Absent, Given("hex")}}

DeriveChildKeyArgs ==
  {[extendedKey |-> key, derivationPath |-> path, network |-> net] :
     key \in {XKey("tpub/tprv", TRUE, 33, 0), XKey("tpub/tprv", FALSE, 33, 0),
              XKey("xpub/xprv", TRUE, 33, 0), NoXKey},
     path \in {<<"m","/","0","'","/","1">>, <<"0","/","1">>, <<"m","/","x">>,
              <<"m","/","4","4","h","/","1","x">>, <<"0","/","/","1">>,
              <<"m","/","-","1">>, <<"m">>},
     net \in {Absent, Given(S_mainnet), Given(S_invalid_network)}}

VerifyMessageArgs ==
  {[address |-> AddrTb1q, message |-> <<"h","i">>, signature |-> sig,
    network |-> net] :
     sig \in {toBase64String(Fill(7, 65)), toBase64String(Fill(7, 64))},
     net \in FewNetworkArgs}
  \cup
  {[address |-> address, message |-> message, signature |-> sig,
    network |-> Absent] :
     address \in {AddrTb1q, NoAddr},
     message \in {<<"h","i">>, <<>>},
     sig \in {toBase64String(Fill(7, 65)), toBase64String(Fill(7, 66)),
              toBase64String(Fill(255, 65)) \o <<"!">>,
              <<"!">> \o toBase64String(Fill(0, 65)),
              toBase64String(Fill(7, 63)) \o toBase64String(Fill(7, 2)),
              <<>>, <<"=">>}}

\* README.md, 'Available Tools': the names the README lists
ReadmeTools ==
  {"generate_address", "validate_address", "decode_address",
   "create_transaction", "sign_transaction", "decode_transaction",
   "estimate_tx_size",
   "create_psbt", "update_psbt", "sign_psbt", "finalize_psbt",
   "generate_keypair", "create_multisig", "compile_script", "hash_message"}

\* names that no registry holds
UnknownNames == {"estimate_tx_size", "Generate_Address", ""}

---------------------------------------------------------------------------
\* The server as a state machine: a request arrives over the transport, the
\* request handler answers it, and the next request arrives.

VARIABLES
  tools,         \* this.tools of the server, the names in insertion order
  request,       \* the request last received
  response,      \* what its handler answered: a returned value or a throw
  pending,       \* the request is received and not answered yet
  drawn,         \* the secret makeRandom draws for the request, 0 for none
  failedBefore,  \* an answer before the pending request was a failure
  netName,       \* the name given to the functions of utils/bitcoin.ts
  netConfig,     \* what getNetworkConfig answered for it
  netValid       \* what validateNetwork answered for it

serverVars == <<tools, request, response, pending, drawn, failedBefore>>
netVars == <<netName, netConfig, netValid>>
vars == <<tools, request, response, pending, drawn, failedBefore,
          netName, netConfig, netValid>>

NoRequest == [method |-> "none", name |-> "", arguments |-> Absent]
NoResponse == [answered |-> FALSE]
NotApplied == [applied |-> FALSE]
Applied(v) == [applied |-> TRUE, v |-> v]

ArgsOf(name) ==
  CASE name = "create_transaction" -> CreateTransactionArgs
    [] name = "decode_transaction" -> DecodeTransactionArgs
    [] name = "sign_transaction" -> SignTransactionArgs
    [] name = "estimate_transaction_fee" -> EstimateTransactionFeeArgs
    [] name = "broadcast_transaction" -> BroadcastTransactionArgs
    [] name = "generate_address" -> GenerateAddressArgs
    [] name = "validate_address" -> ValidateAddressArgs
    [] name = "decode_address" -> DecodeAddressArgs
    [] name = "address_from_script" -> AddressFromScriptArgs
    [] name = "create_psbt" -> CreatePsbtArgs
    [] name = "decode_psbt" -> DecodePsbtArgs
    [] name = "sign_psbt" -> SignPsbtArgs
    [] name = "finalize_psbt" -> FinalizePsbtArgs
    [] name = "combine_psbts" -> CombinePsbtsArgs
    [] name = "update_psbt" -> UpdatePsbtArgs
    [] name = "generate_keypair" -> GenerateKeypairArgs
    [] name = "create_multisig" -> CreateMultisigArgs
    [] name = "compile_script" -> CompileScriptArgs
    [] name = "hash_message" -> HashMessageArgs
    [] name = "derive_child_key" -> DeriveChildKeyArgs
    [] name = "verify_message" -> VerifyMessageArgs
    [] OTHER -> {[network |-> net] : net \in {Absent, Given(S_invalid_network)}}

CallRequests ==
  UNION {{[method |-> "tools/call", name |-> name, arguments |-> args] :
            args \in ArgsOf(name)} : name \in Range(allTools) \cup UnknownNames}
ListRequest == [method |-> "tools/list", name |-> "", arguments |-> Absent]
Requests == CallRequests \cup {ListRequest}

\* an answer that reports a failure: a throw or an envelope with isError
IsErrorEnvelope(v) == "isError" \in DOMAIN v /\ v.isError.given
IsFailure(answer) ==
  /\ answer # NoResponse
  /\ (answer.threw \/ IsErrorEnvelope(answer.value))

Init ==
  /\ tools = setupTools
  /\ request = NoRequest
  /\ response = NoResponse
  /\ pending = FALSE
  /\ drawn = 0
  /\ failedBefore = FALSE
  /\ netName = S_testnet
  /\ netConfig = NotApplied
  /\ netValid = NotApplied

\* the transport hands the next request to the server
Receive ==
  /\ ~pending
  /\ \E r \in Requests :
       /\ request' = r
       /\ IF r.name = "generate_keypair" THEN drawn' \in Secrets ELSE drawn' = 0
  /\ pending' = TRUE
  /\ response' = NoResponse
  /\ failedBefore' = (failedBefore \/ IsFailure(response))
  /\ UNCHANGED <<tools, netVars>>

\* the CallToolRequestSchema handler answers the pending call
CallTool ==
  /\ pending
  /\ request.method = "tools/call"
  /\ response' = CallToolRequest(tools, request.name, request.arguments, drawn)
  /\ tools' = ToolsAfterCall(tools, request.name, response')
  /\ pending' = FALSE
  /\ UNCHANGED <<request, drawn, failedBefore, netVars>>

\* the ListToolsRequestSchema handler answers the pending listing
ListTools ==
  /\ pending
  /\ request.method = "tools/list"
  /\ response' = Return(ListToolsRequest(tools))
  /\ pending' = FALSE
  /\ UNCHANGED <<tools, request, drawn, failedBefore, netVars>>

Next == Receive \/ CallTool \/ ListTools

Spec == Init /\ [][Next]_vars

---------------------------------------------------------------------------
\* The second specification: the two functions of utils/bitcoin.ts that
\* take a network name, applied to names in every mix of cases.

NetWords == {S_mainnet, S_testnet, S_regtest}

\* a word with at most MaxUpper of its characters in upper case
CaseVariants(word) ==
  {[i \in 1..Len(word) |-> IF i \in up THEN UpperChar(word[i]) ELSE word[i]] :
     up \in {u \in SUBSET (1..Len(word)) : Cardinality(u) <= MaxUpper}}

OtherNames ==
  {S_empty, S_invalid_network, <<"m","a","i","n">>, <<"b","i","t","c","o","i","n">>,
   S_testnet \o <<" ">>, <<" ">> \o S_regtest, S_testnet \o <<"3">>,
   <<"s","i","g","n","e","t">>}

NetNames == UNION {CaseVariants(word) : word \in NetWords} \cup OtherNames

\* a caller picks the name it is about to pass
ChooseName ==
  /\ \E s \in NetNames : netName' = s
  /\ netConfig' = NotApplied
  /\ netValid' = NotApplied
  /\ UNCHANGED serverVars

CallGetNetworkConfig ==
  /\ ~netConfig.applied
  /\ netConfig' = Applied(getNetworkConfig(netName))
  /\ UNCHANGED <<netName, netValid, serverVars>>

CallValidateNetwork ==
  /\ ~netValid.applied
  /\ netValid' = Applied(validateNetwork(netName))
  /\ UNCHANGED <<netName, netConfig, serverVars>>

NextNet == ChooseName \/ CallGetNetworkConfig \/ CallValidateNetwork

SpecNet == Init /\ [][NextNet]_vars

---------------------------------------------------------------------------
\* The properties checked.

\* the pending call has been answered
AnsweredCall == ~pending /\ request.method = "tools/call"
\* the name called is declared by a registry
Declared == request.name \in Range(allTools)
\* the answer is an envelope without isError
Succeeded == ~response.threw /\ ~IsErrorEnvelope(response.value)
\* the body of the envelope answered
Body == response.value.content[1].text.json
HasNetworkField == "network" \in DOMAIN request.arguments

\* C1: a call of a declared tool is answered with exactly one envelope, the
\* success envelope of the handler's result when the handler returns and the
\* error envelope of the thrown message when it throws; nothing is thrown
\* out of the dispatcher.
C1_OneEnvelope ==
  (AnsweredCall /\ Declared) =>
     /\ ~response.threw
     /\ Len(response.value.content) = 1
     /\ LET result == RouteToHandler(request.name, request.arguments, drawn) IN
        /\ result.threw => response.value = ErrorEnvelope(result.message)
        /\ ~result.threw => response.value = SuccessEnvelope(result.value)
        /\ IsErrorEnvelope(response.value) <=> result.threw

C1_HandlerThrew ==
  /\ AnsweredCall /\ Declared
  /\ ~response.threw
  /\ IsErrorEnvelope(response.value)
  /\ RouteToHandler(request.name, request.arguments, drawn).threw

\* C2: a call of a name that no registry declares is answered with the error
\* envelope of the unknown-tool message, and nothing is thrown out of the
\* dispatcher.
C2_UnknownToolEnveloped ==
  (AnsweredCall /\ ~Declared) =>
     /\ ~response.threw
     /\ response.value = ErrorEnvelope(MsgT("Unknown tool: ", request.name))

\* the messages of a call that found no handler or no case
RoutingErrors(name) ==
  {MsgT("No handler found for tool: ", name),
   MsgT("Unknown address tool: ", name),
   MsgT("Unknown transaction tool: ", name),
   MsgT("Unknown PSBT tool: ", name),
   MsgT("Unknown utility tool: ", name)}

\* C3: the names of the four registries are pairwise distinct, each switch
\* has a case for every name of its registry, and a call of a declared name
\* is never answered with a no-handler or unknown-tool message.
C3_RoutedToOneHandler ==
  /\ \A i, j \in 1..Len(allTools) : allTools[i] = allTools[j] => i = j
  /\ Range(tools) = Range(allTools)
  /\ (AnsweredCall /\ Declared) =>
        /\ ~response.threw
        /\ IsErrorEnvelope(response.value) =>
              Body.error \notin RoutingErrors(request.name)

C3_LastCaseAnswered ==
  /\ AnsweredCall
  /\ request.name = "broadcast_transaction"
  /\ Succeeded
  /\ "valid" \in DOMAIN Body

WithTestnet == [request.arguments EXCEPT !.network = Given(S_testnet)]
\* the tools whose schema declares no default for network
AutoDetecting == {"validate_address", "decode_address"}

C6_InvalidNetworkFirst ==
  (AnsweredCall /\ Declared /\ HasNetworkField
     /\ request.arguments.network.given
     /\ \A word \in NetWords : toLowerCase(request.arguments.network.v) # word) =>
     /\ ~response.threw
     /\ response.value =
          ErrorEnvelope(MsgS("Invalid network: ", request.arguments.network.v))

\* a name that reads mainnet, testnet or regtest when case is ignored
IsNetworkWord(s) ==
  \E word \in NetWords :
     /\ Len(s) = Len(word)
     /\ \A i \in 1..Len(word) : s[i] \in {word[i], UpperChar(word[i])}

\* C7: getNetworkConfig succeeds exactly when validateNetwork is true,
\* exactly for the names that read mainnet, testnet or regtest when case is
\* ignored; validateNetwork always answers a boolean, and getNetworkConfig
\* fails on every other name with 'Unsupported network: <name>'.
C7_NetworkRecognition ==
  /\ netValid.applied =>
        /\ netValid.v \in BOOLEAN
        /\ netValid.v <=> IsNetworkWord(netName)
  /\ netConfig.applied =>
        /\ ~netConfig.v.threw <=> IsNetworkWord(netName)
        /\ netConfig.v.threw =>
              netConfig.v.message = MsgS("Unsupported network: ", netName)
        /\ ~netConfig.v.threw =>
              netConfig.v.value \in {networks.mainnet, networks.testnet,
                                     networks.regtest}
  /\ (netValid.applied /\ netConfig.applied) =>
        (netValid.v <=> ~netConfig.v.threw)

C7_MixedCaseRecognized ==
  /\ netValid.applied /\ netConfig.applied
  /\ netName # toLowerCase(netName)
  /\ netValid.v
  /\ ~netConfig.v.threw

\* the checks create_transaction is said to make
ChosenNetwork == TextOr(request.arguments.network, S_testnet)
AcceptableInput(input) ==
  /\ Len(input.txid) = 64
  /\ \A i \in 1..Len(input.txid) : IsHexChar(input.txid[i])
  /\ input.vout >= 0
  /\ input.amount > 0
AcceptableOutput(output) ==
  /\ output.amount > 0
  /\ ~toOutputScript(output.address, getNetworkConfig(ChosenNetwork).value).threw
AllAcceptable ==
  /\ \A i \in 1..Len(request.arguments.inputs) :
        AcceptableInput(request.arguments.inputs[i])
  /\ \A j \in 1..Len(request.arguments.outputs) :
        AcceptableOutput(request.arguments.outputs[j])
CreateAnswered ==
  /\ AnsweredCall
  /\ request.name = "create_transaction"
  /\ validateNetwork(ChosenNetwork)

\* C8: create_transaction fails when an input or an output does not pass
\* its checks, and returns hex, txid, size, weight and vsize of the unsigned
\* transaction when all of them pass.
C8_CreateChecksThenReturns ==
  CreateAnswered =>
     /\ ~response.threw
     /\ ~AllAcceptable => IsErrorEnvelope(response.value)
     /\ AllAcceptable =>
           /\ ~IsErrorEnvelope(response.value)
           /\ DOMAIN Body = {"hex", "txid", "size", "weight", "vsize"}

C10_CreatedHexIsSignable ==
  (CreateAnswered /\ Succeeded) =>
     ~signTransaction([hex |-> Body.hex,
                       network |-> request.arguments.network,
                       privateKeys |-> <<WifOf(1, ChosenNetwork)>>]).threw

\* the tools that read a PSBT text
PsbtReaders ==
  {"decode_psbt", "sign_psbt", "finalize_psbt", "combine_psbts", "update_psbt"}
\* what create_psbt returned for the sample containers
CreatedPsbts == {PsbtOf("script"), PsbtOf("bare"), OtherPsbt, EmptyPsbt}
\* the base64 field create_psbt returned along with the hex field text
Base64Of(text) ==
  IF \E c \in CreatedPsbts : c.psbt = text
    THEN (CHOOSE c \in CreatedPsbts : c.psbt = text).base64
  ELSE text
\* the PSBT texts of a call, and the call with each hex field replaced by
\* the base64 field of the same create_psbt result
TextsGiven ==
  IF "psbts" \in DOMAIN request.arguments THEN request.arguments.psbts
  ELSE <<request.arguments.psbt>>
AsBase64 ==
  IF "psbts" \in DOMAIN request.arguments
    THEN [request.arguments EXCEPT
            !.psbts = [i \in 1..Len(request.arguments.psbts) |->
                         Base64Of(request.arguments.psbts[i])]]
  ELSE [request.arguments EXCEPT !.psbt = Base64Of(request.arguments.psbt)]
GivenCreatedHex ==
  /\ AnsweredCall
  /\ request.name \in PsbtReaders
  /\ \E i \in 1..Len(TextsGiven) : \E c \in CreatedPsbts : c.psbt = TextsGiven[i]

\* C11: a PSBT tool called with the hex field that create_psbt returned
\* answers as the same call with the base64 field of that result.
C11_HexAsGoodAsBase64 ==
  GivenCreatedHex =>
     response = CallToolRequest(tools, request.name, AsBase64, drawn)

\* a decode_psbt call with a recognized network whose text parses
DecodePsbtOfParseable ==
  /\ AnsweredCall
  /\ request.name = "decode_psbt"
  /\ validateNetwork(TextOr(request.arguments.network, S_testnet))
  /\ ~ParsePsbt(request.arguments.psbt).threw

\* C12: decode_psbt of a text that parses succeeds with version, locktime,
\* inputs and outputs, and extractable tells whether every input of the
\* container is finalized.
C12_DecodeDescribesUnsigned ==
  DecodePsbtOfParseable =>
     /\ Succeeded
     /\ {"version", "locktime", "inputs", "outputs", "extractable"}
          \subseteq DOMAIN Body
     /\ Body.extractable <=>
          \A i \in 1..Len(ParsePsbt(request.arguments.psbt).value.inputs) :
             IsFinalized(ParsePsbt(request.arguments.psbt).value.inputs[i])

\* an estimate_transaction_fee call and the input type it asks for
EstimateAnswered == AnsweredCall /\ request.name = "estimate_transaction_fee"
AskedInputType ==
  IF request.arguments.inputType.given THEN request.arguments.inputType.v
  ELSE "segwit"
EstimateAccepted ==
  /\ request.arguments.inputs > 0
  /\ request.arguments.outputs > 0
  /\ request.arguments.feeRate.num > 0
  /\ AskedInputType \in {"legacy", "segwit", "taproot"}
\* the weight the stated costs give: four units for each byte outside the
\* witness, one for each witness byte and for the marker and the flag
StatedWeight ==
  IF AskedInputType = "legacy"
    THEN 4 * (10 + 148 * request.arguments.inputs + 34 * request.arguments.outputs)
  ELSE 4 * (10 + 68 * request.arguments.inputs + 34 * request.arguments.outputs)
         + (IF AskedInputType = "segwit" THEN 107 ELSE 65) * request.arguments.inputs
         + 2

\* C13: estimate_transaction_fee fails on a non-positive count or rate and
\* on an unknown input type; otherwise vsize is weight / 4 rounded up, fee is
\* vsize times the rate rounded up, and the weight is the one the stated
\* costs of the input type give (for legacy, four times the size).
C13_EstimateByStatedCosts ==
  EstimateAnswered =>
     /\ ~response.threw
     /\ ~EstimateAccepted => IsErrorEnvelope(response.value)
     /\ EstimateAccepted =>
           /\ Succeeded
           /\ 4 * Body.vsize >= Body.weight
           /\ 4 * (Body.vsize - 1) < Body.weight
           /\ Body.fee * request.arguments.feeRate.den
                >= Body.vsize * request.arguments.feeRate.num
           /\ (Body.fee - 1) * request.arguments.feeRate.den
                < Body.vsize * request.arguments.feeRate.num
           /\ Body.weight = StatedWeight
           /\ AskedInputType = "legacy" =>
                 Body.size = 10 + 148 * request.arguments.inputs
                                + 34 * request.arguments.outputs

\* a broadcast_transaction call with a recognized network whose hex parses,
\* and the transaction it parses to
BroadcastOfParsed ==
  /\ AnsweredCall
  /\ request.name = "broadcast_transaction"
  /\ validateNetwork(TextOr(request.arguments.network, S_testnet))
  /\ isValidHex(request.arguments.hex)
  /\ ~TxFromHex(request.arguments.hex).threw
\* the messages of the checks that the transaction tx violates
ViolationsOf(tx, total) ==
  {m \in {"Transaction has no inputs", "Transaction has no outputs",
          "Transaction has duplicate inputs", "Negative output value found",
          "Total output exceeds maximum Bitcoin supply"} :
     \/ m = "Transaction has no inputs" /\ Len(tx.ins) = 0
     \/ m = "Transaction has no outputs" /\ Len(tx.outs) = 0
     \/ m = "Transaction has duplicate inputs"
          /\ \E i, j \in 1..Len(tx.ins) :
                /\ i # j
                /\ tx.ins[i].hash = tx.ins[j].hash
                /\ tx.ins[i].index = tx.ins[j].index
     \/ m = "Negative output value found"
          /\ \E i \in 1..Len(tx.outs) : tx.outs[i].value.coins < 0
     \/ m = "Total output exceeds maximum Bitcoin supply"
          /\ (total.coins > 21000000
                \/ (total.coins = 21000000 /\ total.sats > 0))}
TotalOf(tx) == AmtSum([i \in 1..Len(tx.outs) |-> tx.outs[i].value])
BroadcastViolations(tx) == ViolationsOf(tx, TotalOf(tx))
BroadcastErrors ==
  IF Body.errors.given
    THEN {Body.errors.v[i].text : i \in 1..Len(Body.errors.v)}
  ELSE {}
BroadcastAnswersFor(violations) ==
  /\ Succeeded
  /\ Body.valid <=> violations = {}
  /\ BroadcastErrors = violations

\* C14: for a transaction that parses, broadcast_transaction answers valid
\* exactly when none of its five checks is violated, and its errors are the
\* messages of all the checks violated.
C14_BroadcastChecksAll ==
  BroadcastOfParsed =>
     BroadcastAnswersFor(BroadcastViolations(TxFromHex(request.arguments.hex).value))

C14_SeveralViolations ==
  /\ BroadcastOfParsed
  /\ Succeeded
  /\ ~Body.valid
  /\ {"Transaction has duplicate inputs",
      "Total output exceeds maximum Bitcoin supply"} \subseteq BroadcastErrors

\* a create_multisig call with a recognized network
MultisigAnswered ==
  /\ AnsweredCall
  /\ request.name = "create_multisig"
  /\ validateNetwork(TextOr(request.arguments.network, S_testnet))
\* a text of hex digits that spells exactly 33 or 65 bytes
IsKeyHex(text) ==
  /\ Len(text) \in {66, 130}
  /\ \A i \in 1..Len(text) : IsHexChar(text[i])

\* C15: under a recognized network, create_multisig succeeds only if
\* 1 <= m <= n <= 15 for the n keys given and every key is hex of exactly 33
\* or 65 bytes, and fails with the 'Invalid m value' message whenever m <= 0
\* or m > n.
C15_MultisigRange ==
  MultisigAnswered =>
     /\ ~response.threw
     /\ Succeeded =>
           /\ 1 <= request.arguments.m
           /\ request.arguments.m <= Len(request.arguments.publicKeys)
           /\ Len(request.arguments.publicKeys) <= 15
           /\ \A i \in 1..Len(request.arguments.publicKeys) :
                 IsKeyHex(request.arguments.publicKeys[i])
     /\ (request.arguments.m <= 0
           \/ request.arguments.m > Len(request.arguments.publicKeys)) =>
           /\ IsErrorEnvelope(response.value)
           /\ Body.error =
                Msg("Invalid m value: must be between 1 and number of public keys")

\* a create_multisig call whose m and keys are valid
MultisigOfValid ==
  /\ MultisigAnswered
  /\ 1 <= request.arguments.m
  /\ request.arguments.m <= Len(request.arguments.publicKeys)
  /\ Len(request.arguments.publicKeys) <= 15
  /\ \A i \in 1..Len(request.arguments.publicKeys) :
        /\ IsKeyHex(request.arguments.publicKeys[i])
        /\ isPoint(BufferFromHex(request.arguments.publicKeys[i]))
\* the bare multisig script of the call: OP_m, the keys in the order given,
\* OP_n, OP_CHECKMULTISIG
BareMultisig ==
  <<80 + request.arguments.m>>
    \o Concat([i \in 1..Len(request.arguments.publicKeys) |->
                 <<Len(BufferFromHex(request.arguments.publicKeys[i]))>>
                   \o BufferFromHex(request.arguments.publicKeys[i])])
    \o <<80 + Len(request.arguments.publicKeys), 174>>
MultisigNetwork ==
  getNetworkConfig(TextOr(request.arguments.network, S_testnet)).value
\* the address of the script hash of a script, and of its witness program
ScriptHashAddress(script) ==
  Base58Addr(MultisigNetwork.scriptHash, hash160(script)[1])
WitnessAddress(script) ==
  Bech32Addr(MultisigNetwork.bech32, 0, 32, sha256(script)[1])
\* what a valid call is answered for the address type
MultisigAnswerFor(type) ==
  IF type \notin {"p2sh", "p2wsh", "p2sh-p2wsh"} THEN IsErrorEnvelope(response.value)
  ELSE /\ Succeeded
       /\ Body.m = request.arguments.m
       /\ Body.n = Len(request.arguments.publicKeys)
       /\ Body.publicKeys = request.arguments.publicKeys
       /\ Body.redeemScript = toHexString(BareMultisig)
       /\ type = "p2sh" =>
             /\ Body.address = ScriptHashAddress(BareMultisig)
             /\ ~Body.witnessScript.given
             /\ ~Body.p2wsh.given
       /\ type = "p2wsh" =>
             /\ Body.address = WitnessAddress(BareMultisig)
             /\ Body.witnessScript = Given(Body.redeemScript)
             /\ ~Body.p2wsh.given
       /\ type = "p2sh-p2wsh" =>
             /\ Body.address =
                  ScriptHashAddress(P2wshOutput(sha256(BareMultisig)))
             /\ Body.witnessScript = Given(Body.redeemScript)
             /\ Body.p2wsh = Given(WitnessAddress(BareMultisig))

NulldataAnswered ==
  /\ AnsweredCall
  /\ request.name = "compile_script"
  /\ validateNetwork(TextOr(request.arguments.network, S_testnet))
  /\ ~Truthy(request.arguments.scriptAsm)
  /\ request.arguments.scriptType = Given("nulldata")
  /\ Truthy(request.arguments.data)
\* the bytes the data of the call decodes to
NulldataBytes == BufferFromHex(request.arguments.data.v)
CitesLimit ==
  /\ IsErrorEnvelope(response.value)
  /\ Body.error = Msg("OP_RETURN data too large (max 80 bytes)")
\* the script answered is OP_RETURN and, for data of two bytes or more, one
\* push of the data (a length byte up to 75 bytes, OP_PUSHDATA1 above)
IsOpReturnOf(script, data) ==
  /\ Len(script) >= 1
  /\ script[1] = 106
  /\ Len(data) >= 2 =>
        script = <<106>> \o (IF Len(data) <= 75 THEN <<Len(data)>>
                             ELSE <<76, Len(data)>>) \o data

\* C17: a nulldata compile_script call fails with the 80-byte message exactly
\* when its data decodes to more than 80 bytes, and with 1 to 80 bytes it
\* succeeds with type 'nulldata' and an OP_RETURN script.
C17_NulldataLimit ==
  NulldataAnswered =>
     /\ ~response.threw
     /\ CitesLimit <=> Len(NulldataBytes) > 80
     /\ Len(NulldataBytes) \in 1..80 =>
           /\ Succeeded
           /\ Body.type = "nulldata"
           /\ IsOpReturnOf(BufferFromHex(Body.hex), NulldataBytes)

C17_EightyBytesCompiled ==
  /\ NulldataAnswered
  /\ Len(NulldataBytes) = 80
  /\ Succeeded


\* a verify_message call with a recognized network
VerifyAnswered ==
  /\ AnsweredCall
  /\ request.name = "verify_message"
  /\ validateNetwork(TextOr(request.arguments.network, S_testnet))
\* the number of bytes the signature of the call decodes to
SignatureLength == Len(Base64Decode(request.arguments.signature))

\* C18: under a recognized network verify_message answers valid false with an
\* error, 'Invalid signature length' when the signature does not decode to
\* 65 bytes and the not-implemented message when it does.
C18_NeverValid ==
  VerifyAnswered =>
     /\ Succeeded
     /\ Body.valid = FALSE
     /\ Body.error =
          Given(Msg(IF SignatureLength # 65 THEN "Invalid signature length"
                    ELSE "Message verification not fully implemented - use specialized libraries"))

C18_FullLengthRefused ==
  /\ VerifyAnswered
  /\ SignatureLength = 65
  /\ Succeeded
  /\ ~Body.valid


\* a validate_address call, and whether it names a network
ValidateAnswered == AnsweredCall /\ request.name = "validate_address"
ValidateNamesNetwork == Truthy(request.arguments.network)
\* the address of the call decodes to an output script under the network named
DecodesUnder(name) ==
  /\ ~getNetworkConfig(name).threw
  /\ ~toOutputScript(request.arguments.address, getNetworkConfig(name).value).threw
StatedOrder == <<S_mainnet, S_testnet, S_regtest>>
\* the networks of the stated order the address decodes under
DecodingNetworks == {i \in 1..3 : DecodesUnder(StatedOrder[i])}

GenerateAnswered ==
  /\ AnsweredCall
  /\ request.name = "generate_address"
  /\ validateNetwork(TextOr(request.arguments.network, S_testnet))
  /\ Truthy(request.arguments.publicKey) =>
        /\ Len(BufferFromHex(request.arguments.publicKey.v)) = 33
        /\ isPoint(BufferFromHex(request.arguments.publicKey.v))
GenerateKey == BufferFromHex(request.arguments.publicKey.v)
GenerateNetwork ==
  getNetworkConfig(TextOr(request.arguments.network, S_testnet)).value
\* what generate_address is stated to answer for the type asked
GenerateAnswerFor(type) ==
  /\ ~response.threw
  /\ Succeeded =>
        /\ Body.type = type
        /\ Body.network = TextOr(request.arguments.network, S_testnet)
  /\ (type = S_p2sh /\ ~Truthy(request.arguments.redeemScript)) =>
        /\ Succeeded
        /\ Truthy(request.arguments.publicKey) =>
              /\ Body.redeemScript =
                   Given(toHexString(P2wpkhOutput(hash160(GenerateKey))))
              /\ Body.address =
                   Base58Addr(GenerateNetwork.scriptHash,
                              hash160(P2wpkhOutput(hash160(GenerateKey)))[1])
  /\ (type = S_p2wsh /\ ~Truthy(request.arguments.witnessScript)) =>
        IsErrorEnvelope(response.value)
  /\ type = S_p2tr =>
        /\ Succeeded
        /\ Truthy(request.arguments.publicKey) =>
              Body.script =
                toHexString(P2trOutput(
                  taggedHash("TapTweak", SubSeq(GenerateKey, 2, 33)).value))
  /\ type \in {S_p2pkh, S_p2wpkh} => Succeeded
  /\ type \notin {S_p2pkh, S_p2sh, S_p2wpkh, S_p2wsh, S_p2tr} =>
        IsErrorEnvelope(response.value)

\* C20: generate_address answers the type and the network asked; p2sh
\* without a redeem script wraps the key's P2WPKH script and returns it as
\* redeemScript; p2wsh without a witness script fails; p2tr takes the 32
\* bytes after the key's first byte as x-only key; any other type fails.
C20_GenerateAddress ==
  GenerateAnswered => GenerateAnswerFor(request.arguments.type)


\* C21: a call of a name that the README lists under 'Available Tools' is a
\* call of a declared tool, and is not answered with the unknown-tool error.
C21_ReadmeToolsDeclared ==
  (AnsweredCall /\ request.name \in ReadmeTools) =>
     /\ Declared
     /\ ~(response.threw
            /\ response.message = MsgT("Unknown tool: ", request.name))


\* a sign_transaction call that returned
SignTxReturned ==
  /\ AnsweredCall
  /\ request.name = "sign_transaction"
  /\ Succeeded
\* the container of the call after the signing loops
SignTxSigned ==
  SignWithEach(PsbtFromHex(request.arguments.hex).value,
               KeyPairs(request.arguments.privateKeys,
                        getNetworkConfig(TextOr(request.arguments.network,
                                                S_testnet)).value, 1),
               1, 1)
\* every input of the container passes the validation of its signatures
AllInputsValidate(psbt) ==
  \A i \in 1..Len(psbt.inputs) : ~PsbtValidateSignaturesOfInput(psbt, i).threw
\* the final transaction of a finalized container
ExtractedFrom(finalized) ==
  IF finalized.threw THEN Throw(finalized.message)
  ELSE PsbtExtractTransaction(finalized.psbt, FALSE)
SignTxAnswersFor(psbt, finalized) ==
  /\ Body.signed =>
        /\ AllInputsValidate(psbt)
        /\ ~finalized.threw
        /\ ~ExtractedFrom(finalized).threw
        /\ Body.hex = TxToHex(ExtractedFrom(finalized).value)
        /\ ~Body.errors.given
  /\ (~AllInputsValidate(psbt) \/ finalized.threw) =>
        /\ ~Body.signed
        /\ Body.hex = PsbtToHex(IF AllInputsValidate(psbt)
                                  THEN finalized.psbt ELSE psbt)
        /\ Body.errors.given
        /\ Len(Body.errors.v) > 0

\* C22: sign_transaction answers signed true only if every input validated
\* and finalization and extraction succeeded, with the final transaction as
\* hex and no errors; if an input fails validation or finalization fails it
\* answers signed false, the container as hex and a non-empty errors list.
C22_SignedOnlyIfAllValid ==
  SignTxReturned =>
     SignTxAnswersFor(SignTxSigned, PsbtFinalizeAllInputs(SignTxSigned))

C22_SignedAndFinal ==
  /\ SignTxReturned
  /\ Body.signed
  /\ Len(SignTxSigned.inputs) = 2
C22_OneInputUnsigned ==
  /\ SignTxReturned
  /\ ~Body.signed
  /\ \E i, j \in 1..2 :
        /\ Len(SignTxSigned.inputs) = 2
        /\ PsbtValidateSignaturesOfInput(SignTxSigned, i).threw
        /\ ~PsbtValidateSignaturesOfInput(SignTxSigned, j).threw


\* a sign_transaction or sign_psbt call with a recognized network, a
\* container that parses and a key among the keys that is one of the network
SigningNetwork ==
  getNetworkConfig(TextOr(request.arguments.network, S_testnet)).value
SigningParsed ==
  IF request.name = "sign_psbt" THEN ParsePsbt(request.arguments.psbt)
  ELSE PsbtFromHex(request.arguments.hex)
SigningAnswered ==
  /\ AnsweredCall
  /\ request.name \in {"sign_transaction", "sign_psbt"}
  /\ validateNetwork(TextOr(request.arguments.network, S_testnet))
  /\ request.name = "sign_transaction" => isValidHex(request.arguments.hex)
  /\ ~SigningParsed.threw
  /\ Len(KeyPairs(request.arguments.privateKeys, SigningNetwork, 1)) > 0
\* the signing as stated: the inputs in index order, for each input the keys
\* in the order given up to the first that signs it
RECURSIVE FirstKeySigns(_, _, _, _)
FirstKeySigns(psbt, keyPairs, i, j) ==
  IF i > Len(psbt.inputs) THEN psbt
  ELSE IF j > Len(keyPairs) THEN FirstKeySigns(psbt, keyPairs, i + 1, 1)
  ELSE IF PsbtSignInput(psbt, i, keyPairs[j]).threw
    THEN FirstKeySigns(psbt, keyPairs, i, j + 1)
  ELSE FirstKeySigns(PsbtSignInput(psbt, i, keyPairs[j]).value, keyPairs, i + 1, 1)
\* what the call answers for the container signed and the errors of the keys
SigningAnswerFor(psbt, keyErrors) ==
  /\ Succeeded
  /\ response.value =
       SuccessEnvelope(IF request.name = "sign_psbt"
                         THEN SignPsbtResult(psbt, keyErrors).value
                         ELSE SignTxValidate(psbt, keyErrors).value)

\* C23: sign_transaction and sign_psbt sign the inputs in index order, each
\* with the first of the keys, in the order given, that signs it and with no
\* key after that one; a key that does not match is passed over, the call is
\* not aborted and errors holds nothing for it.
C23_FirstKeyPerInput ==
  SigningAnswered =>
     SigningAnswerFor(
       FirstKeySigns(SigningParsed.value,
                     KeyPairs(request.arguments.privateKeys, SigningNetwork, 1),
                     1, 1),
       KeyErrors(request.arguments.privateKeys, SigningNetwork, 1))


\* C24: for counts of at least one, a positive rate and each of the input
\* types, estimate_transaction_fee answers a fee that is not negative and a
\* weight, a vsize and a size that are positive.
C24_EstimatesPositive ==
  (EstimateAnswered /\ EstimateAccepted) =>
     /\ Succeeded
     /\ Body.fee >= 0
     /\ Body.weight > 0
     /\ Body.vsize > 0
     /\ Body.size > 0


\* a create_psbt call with a recognized network
CreatePsbtAnswered ==
  /\ AnsweredCall
  /\ request.name = "create_psbt"
  /\ validateNetwork(TextOr(request.arguments.network, S_testnet))
\* the container of the call once its inputs are added, and once its outputs
\* are added as well
ContainerWithInputs ==
  CreatePsbtAddInputs(
    CreatePsbtLocktime(CreatePsbtVersion(request.arguments.version),
                       request.arguments.locktime),
    request.arguments.inputs, 1)
ContainerWithOutputs ==
  CreateTxAddOutputs(
    ContainerWithInputs,
    getNetworkConfig(TextOr(request.arguments.network, S_testnet)).value,
    request.arguments.outputs, 1)
\* no input of the container records a negative value, no output pays one
NoNegativeAmount(psbt) ==
  /\ \A i \in 1..Len(psbt.inputs) :
        psbt.inputs[i].witnessUtxo.given =>
           psbt.inputs[i].witnessUtxo.v.value >= 0
  /\ \A j \in 1..Len(psbt.tx.outs) : psbt.tx.outs[j].value.coins >= 0
\* the call carries a negative amount
CarriesNegativeAmount ==
  \/ \E i \in 1..Len(request.arguments.inputs) :
        \/ request.arguments.inputs[i].amount < 0
        \/ /\ request.arguments.inputs[i].witnessUtxo.given
           /\ request.arguments.inputs[i].witnessUtxo.v.value < 0
  \/ \E j \in 1..Len(request.arguments.outputs) :
        request.arguments.outputs[j].amount < 0

\* C25: no negative amount of a create_psbt call reaches the container, the
\* call being refused before; the amounts of a container built are not
\* negative.
C25_AmountsValidated ==
  CreatePsbtAnswered =>
     /\ CarriesNegativeAmount => IsErrorEnvelope(response.value)
     /\ ~ContainerWithInputs.threw => NoNegativeAmount(ContainerWithInputs.value)
     /\ ~ContainerWithOutputs.threw => NoNegativeAmount(ContainerWithOutputs.value)


\* the call names a network that is not recognized
NamesUnrecognizedNetwork ==
  /\ "network" \in DOMAIN request.arguments
  /\ Truthy(request.arguments.network)
  /\ ~validateNetwork(request.arguments.network.v)
\* the call hands over a text that is not hex, or not a transaction or PSBT
\* that parses, where the tool takes one
HandsOverUnparsable ==
  \/ /\ request.name \in {"decode_transaction", "broadcast_transaction"}
     /\ (~isValidHex(request.arguments.hex) \/ TxFromHex(request.arguments.hex).threw)
  \/ /\ request.name = "sign_transaction"
     /\ (~isValidHex(request.arguments.hex) \/ PsbtFromHex(request.arguments.hex).threw)
  \/ /\ request.name \in {"decode_psbt", "sign_psbt", "finalize_psbt", "update_psbt"}
     /\ ParsePsbt(request.arguments.psbt).threw

\* C26: a call of a declared tool with an unrecognized network name, or with
\* a text that is not hex or does not parse as the transaction or PSBT it
\* stands for, fails with the thrown error and is not answered with data.
C26_CannotProceedThrows ==
  (AnsweredCall /\ Declared /\ (NamesUnrecognizedNetwork \/ HandsOverUnparsable)) =>
     IsFailure(response)


\* a validate_address or decode_address call that reports an address type
AddressTyped ==
  /\ AnsweredCall
  /\ request.name \in {"validate_address", "decode_address"}
  /\ Succeeded
  /\ request.name = "validate_address" => Body.valid
ReportedType ==
  IF request.name = "validate_address" THEN Body.type.v ELSE Body.type
ReportedNetwork ==
  getNetworkConfig(IF request.name = "validate_address" THEN Body.network.v
                   ELSE Body.network).value
\* the first of the five templates, in the stated order, that a script matches
TemplateOf(script) ==
  CASE IsP2pkh(script) -> S_p2pkh
    [] IsP2sh(script) -> S_p2sh
    [] IsP2wpkh(script) -> S_p2wpkh
    [] IsP2wsh(script) -> S_p2wsh
    [] IsP2tr(script) -> S_p2tr
    [] OTHER -> S_unknown

\* C27: the type that validate_address and decode_address report is the
\* template of the address's output script, the first that matches of p2pkh,
\* p2sh, p2wpkh, p2wsh, p2tr, and 'unknown' only when none matches.
C27_TypeIsTemplate ==
  AddressTyped =>
     ReportedType =
       TemplateOf(toOutputScript(request.arguments.address, ReportedNetwork).value)


\* a derive_child_key call with a recognized network and an extended key
\* of that network
DeriveAnswered ==
  /\ AnsweredCall
  /\ request.name = "derive_child_key"
  /\ validateNetwork(TextOr(request.arguments.network, S_testnet))
  /\ ~BIP32FromBase58(request.arguments.extendedKey,
        getNetworkConfig(TextOr(request.arguments.network, S_testnet)).value).threw
\* the segments of the path, a leading 'm/' apart
DeriveSegments ==
  LET path == request.arguments.derivationPath IN
  Split(IF Len(path) >= 2 /\ SubSeq(path, 1, 2) = <<"m", "/">>
          THEN SubSeq(path, 3, Len(path)) ELSE path, "/")
\* a text of decimal digits that is a number below 0x80000000
IsIndexNumber(text) ==
  /\ Len(text) \in 1..10
  /\ \A i \in 1..Len(text) : IsDigit(text[i])
  /\ Len(text) = 10 => text[1] \in {"0", "1"}
  /\ DecimalValue(text) >= 0
\* a segment 'n', 'n'' or 'nh' for such a number n
IsIndexSegment(segment) ==
  \/ IsIndexNumber(segment)
  \/ /\ Len(segment) >= 2
     /\ segment[Len(segment)] \in {"'", "h"}
     /\ IsIndexNumber(SubSeq(segment, 1, Len(segment) - 1))

\* C28: derive_child_key fails, returning no derived key, when a segment of
\* the path (a leading 'm/' stripped, the rest split on '/') is not a number
\* n with 0 <= n < 0x80000000, plain or followed by ' or h.
C28_BadSegmentFails ==
  (DeriveAnswered
     /\ \E i \in 1..Len(DeriveSegments) : ~IsIndexSegment(DeriveSegments[i]))
  => IsFailure(response)


\* a compile_script call with a recognized network
CompileAnswered ==
  /\ AnsweredCall
  /\ request.name = "compile_script"
  /\ validateNetwork(TextOr(request.arguments.network, S_testnet))
\* the script type the call asks for, p2pkh by default
CompileType == StrOr(request.arguments.scriptType, "p2pkh")
ScriptTemplates ==
  {"p2pk", "p2pkh", "p2sh", "p2wpkh", "p2wsh", "multisig", "nulldata"}
\* the typed field that the template of a type needs is given
TypedFieldGiven(type) ==
  CASE type = "p2pk" -> Truthy(request.arguments.publicKey)
    [] type \in {"p2pkh", "p2wpkh"} -> Truthy(request.arguments.publicKeyHash)
    [] type \in {"p2sh", "p2wsh"} -> Truthy(request.arguments.scriptHash)
    [] type = "multisig" -> request.arguments.multisigConfig.given
    [] type = "nulldata" -> Truthy(request.arguments.data)
    [] OTHER -> FALSE
\* the script of a successful answer is the template of the type asked
IsTemplateOfType(script, type) ==
  CASE type = "p2pk" ->
         script = <<Len(BufferFromHex(request.arguments.publicKey.v))>>
                    \o BufferFromHex(request.arguments.publicKey.v) \o <<172>>
    [] type = "p2pkh" ->
         script = P2pkhOutput(BufferFromHex(request.arguments.publicKeyHash.v))
    [] type = "p2wpkh" ->
         script = P2wpkhOutput(BufferFromHex(request.arguments.publicKeyHash.v))
    [] type = "p2sh" ->
         script = P2shOutput(BufferFromHex(request.arguments.scriptHash.v))
    [] type = "p2wsh" ->
         script = P2wshOutput(BufferFromHex(request.arguments.scriptHash.v))
    [] type = "multisig" ->
         /\ script[Len(script)] = 174
         /\ script[1] = 80 + request.arguments.multisigConfig.v.m
    [] type = "nulldata" ->
         IsOpReturnOf(script, BufferFromHex(request.arguments.data.v))
    [] OTHER -> FALSE
\* the answer of the assembly path for the text given
AssemblyAnswer(asm, compiled) ==
  IF compiled.threw THEN IsFailure(response)
  ELSE /\ Succeeded
       /\ Body.type = "custom"
       /\ Body.asm = asm
       /\ Body.hex = toHexString(compiled.value)
       /\ Body.p2sh = Absent /\ Body.p2wsh = Absent
\* the answer of the template path for the type asked
TemplateAnswer(type) ==
  /\ (type \notin ScriptTemplates \/ ~TypedFieldGiven(type)) => IsFailure(response)
  /\ Succeeded =>
       /\ Body.type = type
       /\ IsTemplateOfType(BufferFromHex(Body.hex), type)
       /\ Body.asm = toASM(BufferFromHex(Body.hex))

FinalizeAnswered ==
  /\ AnsweredCall
  /\ request.name = "finalize_psbt"
  /\ validateNetwork(TextOr(request.arguments.network, S_testnet))
  /\ ~ParsePsbt(request.arguments.psbt).threw
\* the inputs of the container that fail the validation of their signatures
FailingInputs(psbt) ==
  {i \in 1..Len(psbt.inputs) : PsbtValidateSignaturesOfInput(psbt, i).threw}
\* what finalize_psbt is stated to answer for the container parsed, failing
\* being its inputs that fail validation and tx the transaction extracted
\* after the finalization of its inputs
FinalizeAnswerFor(psbt, failing, tx) ==
  /\ Succeeded
  /\ Body.finalized <=> (failing = {} /\ ~tx.threw)
  /\ Body.finalized =>
       /\ Body.hex = Given(TxToHex(tx.value))
       /\ Body.txid = Given(TxGetId(tx.value))
       /\ Body.errors = Absent
  /\ ~Body.finalized =>
       /\ Body.hex = Absent
       /\ Body.txid = Absent
       /\ Body.errors.given
       /\ Len(Body.errors.v) > 0
       /\ IF failing # {}
            THEN /\ Len(Body.errors.v) = Cardinality(failing)
                 /\ \A i \in failing : \E k \in 1..Len(Body.errors.v) :
                       /\ Body.errors.v[k].text = "Input validation failed"
                       /\ Body.errors.v[k].num = i - 1
            ELSE /\ Len(Body.errors.v) = 1
                 /\ Body.errors.v[1].text = "Finalization failed"

\* C30: once the PSBT has parsed, finalize_psbt does not throw. It returns
\* finalized true with hex and txid exactly when every input passes the
\* validation of its signatures and both finalization and extraction
\* succeed; otherwise finalized false without hex or txid and with a
\* non-empty list of errors, one per input that failed validation or else
\* the single failure of the finalization.
C30_FinalizeNeverThrows ==
  FinalizeAnswered =>
    FinalizeAnswerFor(ParsePsbt(request.arguments.psbt).value,
                      FailingInputs(ParsePsbt(request.arguments.psbt).value),
                      ExtractedFrom(PsbtFinalizeAllInputs(
                        ParsePsbt(request.arguments.psbt).value)))
\* a container of two inputs of which one fails validation
C30_OneInputFails ==
  /\ FinalizeAnswered
  /\ Len(ParsePsbt(request.arguments.psbt).value.inputs) = 2
  /\ Cardinality(FailingInputs(ParsePsbt(request.arguments.psbt).value)) = 1
  /\ ~Body.finalized

====
